---------------------------- MODULE Spec2Model ----------------------------
(***************************************************************************)
(* A model of stb_json.h: the value tree with its intrusive child lists,   *)
(* the recursive-descent parser, the serializer, the JSON Pointer          *)
(* evaluator, the JSON Patch engine and the Merge Patch engine.            *)
(*                                                                         *)
(* Memory is a heap of nodes addressed by positive integers; 0 is the C    *)
(* null pointer.  Every library function is an operator from a heap (and   *)
(* its arguments) to a heap (and its result), written after its C body.    *)
(* Bytes are one-character strings, C strings are sequences of bytes.      *)
(***************************************************************************)
EXTENDS Integers, Sequences, FiniteSets, TLC

VARIABLES
    heap,          \* the allocator's memory: nodes, live set, string count
    pc,            \* position of the driving program
    object,        \* the document / container the calls operate on
    other,         \* a second tree: target of a diff, or the patch document
    patches,       \* the patch array handed to applypatches
    current_patch, \* stb_json_utils_applypatches: loop cursor
    status,        \* stb_json_utils_applypatches: loop status
    global_error,  \* the per-thread error cursor, [json, position]
    input,         \* the arguments of the current call
    ghost          \* bookkeeping of the checks: what the calls were asked to do

vars == <<heap, pc, object, other, patches, current_patch, status,
          global_error, input, ghost>>

(***************************************************************************)
(* Bytes.                                                                  *)
(***************************************************************************)
NUL == "NUL"

Printable ==
    << " ", "!", "\"", "#", "$", "%", "&", "'", "(", ")", "*", "+", ",", "-",
       ".", "/", "0", "1", "2", "3", "4", "5", "6", "7", "8", "9", ":", ";",
       "<", "=", ">", "?", "@", "A", "B", "C", "D", "E", "F", "G", "H", "I",
       "J", "K", "L", "M", "N", "O", "P", "Q", "R", "S", "T", "U", "V", "W",
       "X", "Y", "Z", "[", "\\", "]", "^", "_", "BQ", "a", "b", "c", "d", "e",
       "f", "g", "h", "i", "j", "k", "l", "m", "n", "o", "p", "q", "r", "s",
       "t", "u", "v", "w", "x", "y", "z", "{", "|", "}", "~" >>

HexDigits ==
    << "0", "1", "2", "3", "4", "5", "6", "7", "8", "9", "a", "b", "c", "d",
       "e", "f" >>

\* The byte (unsigned char) of a numeric value: the printable ones are
\* written as themselves, the others as NUL, \t, \n, \f, \r or xHH.
Chr(n) ==
    IF n >= 32 /\ n <= 126 THEN Printable[n - 31]
    ELSE CASE n = 0  -> NUL
           [] n = 9  -> "\t"
           [] n = 10 -> "\n"
           [] n = 12 -> "\f"
           [] n = 13 -> "\r"
           [] OTHER  -> "x" \o HexDigits[(n \div 16) + 1] \o HexDigits[(n % 16) + 1]

\* The numeric value of a byte.
Ord(c) ==
    IF \E i \in 1..Len(Printable) : Printable[i] = c
    THEN 31 + (CHOOSE i \in 1..Len(Printable) : Printable[i] = c)
    ELSE CHOOSE n \in (0..31) \cup (127..255) : Chr(n) = c

tolower(c) == IF Ord(c) >= 65 /\ Ord(c) <= 90 THEN Chr(Ord(c) + 32) ELSE c

IsDigit(c) == Ord(c) >= 48 /\ Ord(c) <= 57

\* s[i] of a C string: the terminating NUL sits right after the last byte.
At(s, i) == IF i >= 1 /\ i <= Len(s) THEN s[i] ELSE NUL

\* A null char* (distinct from every C string, the empty one included).
NullStr == << "NULL" >>

Min(a, b) == IF a < b THEN a ELSE b

RECURSIVE strcmp(_, _)
strcmp(s1, s2) ==
    IF At(s1, 1) # At(s2, 1) THEN Ord(At(s1, 1)) - Ord(At(s2, 1))
    ELSE IF s1 = << >> THEN 0
    ELSE strcmp(Tail(s1), Tail(s2))

RECURSIVE case_insensitive_strcmp(_, _)
case_insensitive_strcmp(s1, s2) ==
    IF s1 = NullStr \/ s2 = NullStr THEN 1
    ELSE IF tolower(At(s1, 1)) # tolower(At(s2, 1))
         THEN Ord(tolower(At(s1, 1))) - Ord(tolower(At(s2, 1)))
    ELSE IF s1 = << >> THEN 0
    ELSE case_insensitive_strcmp(Tail(s1), Tail(s2))

(***************************************************************************)
(* Nodes and the heap.                                                     *)
(***************************************************************************)
NULL == 0

STB_JSON_INVALID == 0
STB_JSON_FALSE == 1
STB_JSON_TRUE == 2
STB_JSON_NULL == 4
STB_JSON_NUMBER == 8
STB_JSON_STRING == 16
STB_JSON_ARRAY == 32
STB_JSON_OBJECT == 64
STB_JSON_RAW == 128
STB_JSON_IS_REFERENCE == 256
STB_JSON_STRING_IS_CONST == 512

INT_MAX == 2147483647
INT_MIN == -INT_MAX - 1

\* A statement's result bound to a local: applied to [x \in {e} |-> body],
\* it is body with x standing for the value of e.
Bind(f) == f[CHOOSE v \in DOMAIN f : TRUE]

(***************************************************************************)
(* Natural numbers of any size, for the arithmetic of doubles: a sequence  *)
(* of limbs below Limb, least significant first, without a leading zero.   *)
(***************************************************************************)
LimbBits == 3 * 5
Limb == 2^LimbBits

RECURSIVE Big(_)
Big(n) == IF n = 0 THEN << >> ELSE <<n % Limb>> \o Big(n \div Limb)

BigLimb(a, i) == IF i >= 1 /\ i <= Len(a) THEN a[i] ELSE 0

BigTrim(a) ==
    IF \A i \in 1..Len(a) : a[i] = 0 THEN << >>
    ELSE SubSeq(a, 1, CHOOSE i \in 1..Len(a) :
                          a[i] # 0 /\ \A j \in (i + 1)..Len(a) : a[j] = 0)

\* -1, 0 or 1 as a < b, a = b or a > b.
BigCmp(a, b) ==
    IF Len(a) # Len(b) THEN (IF Len(a) < Len(b) THEN -1 ELSE 1)
    ELSE IF a = b THEN 0
    ELSE IF \E i \in 1..Len(a) :
                a[i] < b[i] /\ \A j \in (i + 1)..Len(a) : a[j] = b[j]
    THEN -1 ELSE 1

\* The limbs of a sum whose columns s are below 2 * Limb - 1: a column
\* takes a carry when a column below it overflows and those between pass
\* the carry on.
BigCarried(s) ==
    BigTrim([i \in 1..Len(s) |->
        IF \E j \in 1..(i - 1) :
               s[j] >= Limb /\ \A t \in (j + 1)..(i - 1) : s[t] >= Limb - 1
        THEN (s[i] + 1) % Limb ELSE s[i] % Limb])

BigAdd(a, b) ==
    IF a = << >> THEN b ELSE IF b = << >> THEN a
    ELSE BigCarried([i \in 1..((IF Len(a) > Len(b) THEN Len(a) ELSE Len(b)) + 1) |->
                   BigLimb(a, i) + BigLimb(b, i)])

\* a - b for a >= b.
BigSub(a, b) ==
    IF b = << >> THEN a
    ELSE BigTrim([i \in 1..Len(a) |->
        IF \E j \in 1..(i - 1) :
               /\ a[j] < BigLimb(b, j)
               /\ \A t \in (j + 1)..(i - 1) : a[t] <= BigLimb(b, t)
        THEN (a[i] - BigLimb(b, i) - 1 + Limb) % Limb
        ELSE (a[i] - BigLimb(b, i) + Limb) % Limb])

\* a * k + carry for k and carry below Limb.
BigMulSmall(a, k, carry) ==
    IF a = << >> \/ k = 0 THEN Big(carry)
    ELSE BigCarried([i \in 1..(Len(a) + 1) |->
                   ((BigLimb(a, i) * k) % Limb) + ((BigLimb(a, i - 1) * k) \div Limb)
                   + (IF i = 1 THEN carry ELSE 0)])

\* a * Limb^n
BigShiftLimbs(a, n) == IF a = << >> THEN a ELSE [i \in 1..n |-> 0] \o a

\* a times the limbs lo..hi of b, each in its place.
RECURSIVE BigMulRange(_, _, _, _)
BigMulRange(a, b, lo, hi) ==
    IF lo = hi THEN BigShiftLimbs(BigMulSmall(a, b[lo], 0), lo - 1)
    ELSE BigAdd(BigMulRange(a, b, lo, (lo + hi) \div 2),
                BigMulRange(a, b, (lo + hi) \div 2 + 1, hi))

BigMul(a, b) ==
    IF a = << >> \/ b = << >> THEN << >>
    ELSE IF Len(a) < Len(b) THEN BigMulRange(b, a, 1, Len(a))
    ELSE BigMulRange(a, b, 1, Len(b))

\* k^n for k^4 below Limb, four factors at a time: at is the number of
\* factors left and the product so far.
RECURSIVE BigPowFrom(_, _)
BigPowFrom(k, at) ==
    IF at.n = 0 THEN at.value
    ELSE IF at.n >= 4
    THEN BigPowFrom(k, [n |-> at.n - 4, value |-> BigMulSmall(at.value, k^4, 0)])
    ELSE BigPowFrom(k, [n |-> at.n - 1, value |-> BigMulSmall(at.value, k, 0)])

BigPow(k, n) == BigPowFrom(k, [n |-> n, value |-> <<1>>])

\* The number of bits of a limb, and of a.
SmallBits(n) == Cardinality({t \in 0..(LimbBits - 1) : (2^t) <= n})
BigBits(a) == IF a = << >> THEN 0 ELSE LimbBits * (Len(a) - 1) + SmallBits(a[Len(a)])

\* a * 2^n and a \div 2^n.
BigShlBits(a, s) ==
    IF a = << >> \/ s = 0 THEN a
    ELSE BigTrim([i \in 1..(Len(a) + 1) |->
                ((BigLimb(a, i) % (2^(LimbBits - s))) * (2^s))
                + (BigLimb(a, i - 1) \div (2^(LimbBits - s)))])
BigShl(a, n) == BigShiftLimbs(BigShlBits(a, n % LimbBits), n \div LimbBits)

BigShrBits(a, s) ==
    IF a = << >> \/ s = 0 THEN a
    ELSE BigTrim([i \in 1..Len(a) |->
                (a[i] \div (2^s)) + ((BigLimb(a, i + 1) % (2^s)) * (2^(LimbBits - s)))])
BigShr(a, n) ==
    IF n \div LimbBits >= Len(a) THEN << >>
    ELSE BigShrBits(SubSeq(a, n \div LimbBits + 1, Len(a)), n % LimbBits)

\* One limb of a quotient: the remainder r is below b * Limb^(j+1) and the
\* top limb of b is at least Limb / 2, so the limb is the estimate made
\* from the top limbs of r and b, or one or two less.
BigDivEstimate(r, b, j) ==
    IF ((BigLimb(r, Len(b) + j + 1) * Limb + BigLimb(r, Len(b) + j)) \div b[Len(b)]) < Limb
    THEN (BigLimb(r, Len(b) + j + 1) * Limb + BigLimb(r, Len(b) + j)) \div b[Len(b)]
    ELSE Limb - 1

BigDivFits(r, b, j, d) == BigCmp(BigShiftLimbs(BigMulSmall(b, d, 0), j), r) <= 0

BigDivLimb(r, b, j, estimate) ==
    IF BigDivFits(r, b, j, estimate) THEN estimate
    ELSE IF BigDivFits(r, b, j, estimate - 1) THEN estimate - 1
    ELSE estimate - 2

\* Long division, one limb of the quotient after the other: at is the
\* remainder r, the place j of the next limb and the limbs q found so far.
BigDivNext(at, b, d) ==
    IF d = 0 THEN [r |-> at.r, j |-> at.j - 1, q |-> <<0>> \o at.q]
    ELSE [r |-> BigSub(at.r, BigShiftLimbs(BigMulSmall(b, d, 0), at.j)),
          j |-> at.j - 1, q |-> <<d>> \o at.q]

RECURSIVE BigDivFrom(_, _)
BigDivFrom(at, b) ==
    IF at.j < 0 THEN [q |-> BigTrim(at.q), r |-> at.r]
    ELSE BigDivFrom(BigDivNext(at, b, BigDivLimb(at.r, b, at.j,
                                                 BigDivEstimate(at.r, b, at.j))), b)

BigDivShifted(res, s) == [q |-> res.q, r |-> BigShr(res.r, s)]

BigDivStart(r, b) == [r |-> r, j |-> Len(r) - Len(b), q |-> << >>]

BigDivNormal(a, b, s) ==
    BigDivShifted(BigDivFrom(BigDivStart(BigShl(a, s), BigShl(b, s)), BigShl(b, s)), s)

\* a \div b and a % b, for b > 0.
BigDivMod(a, b) ==
    IF BigCmp(a, b) < 0 THEN [q |-> << >>, r |-> a]
    ELSE BigDivNormal(a, b, LimbBits - SmallBits(b[Len(b)]))

\* The value of a number below 2^31.
BigSmall(a) == BigLimb(a, 1) + Limb * (BigLimb(a, 2) + Limb * BigLimb(a, 3))

\* Long division by k <= Limb from limb i down, q the limbs found so far.
RECURSIVE BigDivSmallFrom(_, _, _, _, _)
BigDivSmallFrom(a, k, i, rem, q) ==
    IF i = 0 THEN [q |-> BigTrim(q), r |-> rem]
    ELSE BigDivSmallFrom(a, k, i - 1, (rem * Limb + a[i]) % k,
                         <<(rem * Limb + a[i]) \div k>> \o q)

BigDivSmall(a, k) == BigDivSmallFrom(a, k, Len(a), 0, << >>)

\* The decimal digits of a, most significant first (none for zero), four
\* at a time.
RECURSIVE BigDigits(_)
BigDigitsOf(d) ==
    IF d.q = << >>
    THEN (IF d.r >= 1000 THEN <<d.r \div 1000>> ELSE << >>)
         \o (IF d.r >= 100 THEN <<(d.r \div 100) % 10>> ELSE << >>)
         \o (IF d.r >= 10 THEN <<(d.r \div 10) % 10>> ELSE << >>)
         \o <<d.r % 10>>
    ELSE BigDigits(d.q)
         \o <<d.r \div 1000, (d.r \div 100) % 10, (d.r \div 10) % 10, d.r % 10>>
BigDigits(a) == IF a = << >> THEN << >> ELSE BigDigitsOf(BigDivSmall(a, 10000))

(***************************************************************************)
(* IEEE-754 binary64.  A finite double is the record of its sign, the odd  *)
(* natural m and the exponent e with value m * 2^e (m empty and e = 0 for  *)
(* zero), so that equal doubles are equal records.  Every operation rounds *)
(* its exact result to DBL_MANT_DIG bits, ties to even.  The doubles of    *)
(* the model stay inside the range of normal numbers, where that is the    *)
(* whole of the arithmetic; the two zeros are not told apart.              *)
(***************************************************************************)
DBL_MANT_DIG == 53

DZero == [neg |-> FALSE, m |-> << >>, e |-> 0]

\* The number of zero bits m ends with.
BigLowZeros(m, limbs) ==
    LimbBits * limbs
    + Cardinality({t \in 1..(LimbBits - 1) : m[limbs + 1] % (2^t) = 0})

DShifted(neg, m, e, zeros) == [neg |-> neg, m |-> BigShr(m, zeros), e |-> e + zeros]

DNorm(neg, m, e) ==
    IF m = << >> THEN DZero
    ELSE DShifted(neg, m, e,
             BigLowZeros(m, Cardinality({i \in 1..Len(m) : \A j \in 1..i : m[j] = 0})))

\* The double nearest to (m + s) * 2^e, where 0 <= s < 1 and sticky tells
\* whether s > 0; m has more than DBL_MANT_DIG bits whenever sticky holds.
DRoundUp(rest, half, sticky, odd) ==
    BigCmp(rest, half) > 0 \/ (rest = half /\ (sticky \/ odd))

DRoundCut(m, sticky, q, d) ==
    IF DRoundUp(BigSub(m, BigShl(q, d)), BigShl(<<1>>, d - 1), sticky, q[1] % 2 = 1)
    THEN BigAdd(q, <<1>>)
    ELSE q

\* d is the number of bits m has too many.
DRoundBy(neg, m, e, sticky, d) ==
    IF d <= 0 THEN DNorm(neg, m, e)
    ELSE DNorm(neg, DRoundCut(m, sticky, BigShr(m, d), d), e + d)

DRound(neg, m, e, sticky) == DRoundBy(neg, m, e, sticky, BigBits(m) - DBL_MANT_DIG)

DQuotientOf(neg, e, s, dm) == DRound(neg, dm.q, e - s, dm.r # << >>)

\* The double nearest to (a / b) * 2^e, for a, b > 0: a is scaled for the
\* quotient to have more than DBL_MANT_DIG bits.
DQuotientBy(neg, a, b, e, s) ==
    IF s <= 0 THEN DQuotientOf(neg, e, 0, BigDivMod(a, b))
    ELSE DQuotientOf(neg, e, s, BigDivMod(BigShl(a, s), b))

DQuotient(neg, a, b, e) ==
    DQuotientBy(neg, a, b, e, BigBits(b) + DBL_MANT_DIG + 2 - BigBits(a))

\* The double nearest to digits * 10^e: what the compiler makes of a decimal
\* literal, and what strtod and scanf("%lg") make of a decimal text.
DDecimal(neg, digits, e) ==
    IF digits = << >> THEN DZero
    ELSE IF e < 0 THEN DQuotient(neg, digits, BigPow(10, -e), 0)
    ELSE DRound(neg, IF e = 0 THEN digits ELSE BigMul(digits, BigPow(10, e)), 0, FALSE)

\* The magnitude of an int.
BigAbs(n) ==
    IF n = INT_MIN THEN BigAdd(Big(INT_MAX), <<1>>) ELSE Big(IF n < 0 THEN -n ELSE n)

\* (double)n for an int n: exact.
DInt(n) == DNorm(n < 0, BigAbs(n), 0)

\* The double of the literal m e<e>, for an int m.
Dbl(m, e) == DDecimal(m < 0, BigAbs(m), e)

DNeg(x) == IF x.m = << >> THEN x ELSE [x EXCEPT !.neg = ~@]
fabs(x) == [x EXCEPT !.neg = FALSE]

\* The mantissas of x and y over their common exponent.
DAligned(x, y) ==
    IF x.e <= y.e THEN [a |-> x.m, b |-> BigShl(y.m, y.e - x.e), e |-> x.e]
    ELSE [a |-> BigShl(x.m, x.e - y.e), b |-> y.m, e |-> y.e]

DAddOrdered(x, y, al, order) ==
    DRound(IF x.neg = y.neg \/ order >= 0 THEN x.neg ELSE y.neg,
           IF x.neg = y.neg THEN BigAdd(al.a, al.b)
           ELSE IF order >= 0 THEN BigSub(al.a, al.b) ELSE BigSub(al.b, al.a),
           al.e, FALSE)

DAddAligned(x, y, al) == DAddOrdered(x, y, al, BigCmp(al.a, al.b))

\* x + y, x - y, x * y, x / y
DAdd(x, y) ==
    IF x.m = << >> THEN y ELSE IF y.m = << >> THEN x
    ELSE DAddAligned(x, y, DAligned(x, y))
DSub(x, y) == DAdd(x, DNeg(y))
DMul(x, y) == DRound(x.neg # y.neg, BigMul(x.m, y.m), x.e + y.e, FALSE)
DDiv(x, y) ==
    IF x.m = << >> THEN x ELSE DQuotient(x.neg # y.neg, x.m, y.m, x.e - y.e)

\* x <= y
DLessEq(x, y) == x = y \/ DSub(x, y).neg

\* pow(10.0, n): the double nearest to 10^n.
pow10(n) == DDecimal(FALSE, <<1>>, n)

\* (int)x for |x| < 2^31.
DTruncate(x) ==
    IF x.e >= 0 THEN BigSmall(BigShl(x.m, x.e)) ELSE BigSmall(BigShr(x.m, -x.e))

\* type & 0xFF
Kind(type) == type % 256
IsReference(type) == (type \div STB_JSON_IS_REFERENCE) % 2 = 1
IsConstKey(type) == (type \div STB_JSON_STRING_IS_CONST) % 2 = 1

\* memset(node, 0, sizeof(stb_json))
ZeroNode ==
    [next |-> NULL, prev |-> NULL, child |-> NULL, type |-> STB_JSON_INVALID,
     valuestring |-> NullStr, valueint |-> 0, valuedouble |-> DZero,
     string |-> NullStr]

\* The hook table as the library starts with it.  A callback is named by
\* the function it points to; "NULL" is the null function pointer.
global_hooks ==
    [allocate |-> "internal_malloc", deallocate |-> "internal_free",
     reallocate |-> "internal_realloc"]

\* The heap before any allocation.  fuel is the number of allocations the
\* allocator will still grant (-1: it never fails); nstr counts the live
\* strings and buffers handed out; bad records a release of memory that is
\* not live (a double free); hooks is the table the calls go through, and
\* nullcall records a call through a null callback, after which the
\* program does not go on.
EmptyHeap ==
    [n |-> << >>, used |-> {}, nstr |-> 0, fuel |-> -1, bad |-> FALSE,
     hooks |-> global_hooks, nullcall |-> FALSE]

\* stb_json_inithooks(hooks): hooks is the empty sequence for a null pointer,
\* or holds the record pointed to, with malloc_fn and free_fn each "NULL" or
\* the name of a function.
stb_json_inithooks(h, hooks) ==
    IF hooks = << >>
    THEN [h EXCEPT !.hooks = [allocate |-> "malloc", deallocate |-> "free",
                              reallocate |-> "realloc"]]
    ELSE LET allocate == IF hooks[1].malloc_fn # "NULL" THEN hooks[1].malloc_fn
                         ELSE "malloc"
             deallocate == IF hooks[1].free_fn # "NULL" THEN hooks[1].free_fn
                           ELSE "free"
         IN [h EXCEPT !.hooks =
                [allocate |-> allocate, deallocate |-> deallocate,
                 reallocate |-> IF allocate = "malloc" /\ deallocate = "free"
                                THEN "realloc" ELSE "NULL"]]

Grant(h) == h.fuel # 0
Spend(h) == IF h.fuel > 0 THEN [h EXCEPT !.fuel = @ - 1] ELSE h

\* hooks->allocate(sizeof(stb_json)) followed by memset: the lowest free cell.
LowestFree(h) ==
    LET free == (1..Len(h.n)) \ h.used
    IN IF free = {} THEN Len(h.n) + 1
       ELSE CHOOSE i \in free : \A j \in free : i <= j

Zeroed(n, id) ==
    IF id > Len(n) THEN Append(n, ZeroNode) ELSE [n EXCEPT ![id] = ZeroNode]

Allocate(h, id) ==
    [h |-> [Spend(h) EXCEPT !.n = Zeroed(@, id), !.used = @ \cup {id}], r |-> id]

stb_json_new_item(h) ==
    IF ~Grant(h) THEN [h |-> h, r |-> NULL] ELSE Allocate(h, LowestFree(h))

\* hooks->deallocate(node)
deallocate(h, id) ==
    IF id \in h.used THEN [h EXCEPT !.used = @ \ {id}]
    ELSE [h EXCEPT !.bad = TRUE]

\* stb_json_strdup: a copy of a C string, or null when the allocator fails.
stb_json_strdup(h, s) ==
    IF s = NullStr \/ ~Grant(h) THEN [h |-> h, r |-> NullStr]
    ELSE [h |-> [Spend(h) EXCEPT !.nstr = @ + 1], r |-> s]

\* hooks->deallocate(string)
free_string(h) == [h EXCEPT !.nstr = @ - 1]

free_if(h, owned) == IF owned THEN free_string(h) ELSE h

Set(h, id, f, v) == [h EXCEPT !.n[id][f] = v]

RECURSIVE stb_json_delete(_, _)
stb_json_delete(h, item) ==
    IF item = NULL THEN h
    ELSE IF item \notin h.used THEN [h EXCEPT !.bad = TRUE]
    ELSE LET nd == h.n[item]
         IN stb_json_delete(
                deallocate(
                    free_if(free_if(IF ~IsReference(nd.type) /\ nd.child # NULL
                                    THEN stb_json_delete(h, nd.child) ELSE h,
                                    ~IsReference(nd.type) /\ nd.valuestring # NullStr),
                            ~IsConstKey(nd.type) /\ nd.string # NullStr),
                    item),
                nd.next)

(***************************************************************************)
(* Tree editing primitives.                                                *)
(***************************************************************************)
suffix_object(h, prev, item) ==
    Set(Set(h, prev, "next", item), item, "prev", prev)

add_item_to_array(h, array, item) ==
    IF item = NULL \/ array = NULL \/ array = item THEN [h |-> h, r |-> FALSE]
    ELSE LET child == h.n[array].child
         IN IF child = NULL
            THEN [h |-> Set(Set(h, array, "child", item), item, "prev", item),
                  r |-> TRUE]
            ELSE IF h.n[child].prev # NULL
            THEN [h |-> Set(suffix_object(h, h.n[child].prev, item),
                            child, "prev", item),
                  r |-> TRUE]
            ELSE [h |-> h, r |-> TRUE]

stb_json_additemtoarray(h, array, item) == add_item_to_array(h, array, item)

\* constant_key = false: the key is duplicated, the item's old key released.
add_item_to_object(h, obj, string, item) ==
    IF obj = NULL \/ string = NullStr \/ item = NULL \/ obj = item
    THEN [h |-> h, r |-> FALSE]
    ELSE Bind([k \in {stb_json_strdup(h, string)} |->
         IF k.r = NullStr THEN [h |-> h, r |-> FALSE]
         ELSE LET nd == k.h.n[item]
              IN add_item_to_array(
                     Set(Set(free_if(k.h, ~IsConstKey(nd.type) /\ nd.string # NullStr),
                             item, "string", k.r),
                         item, "type",
                         IF IsConstKey(nd.type)
                         THEN nd.type - STB_JSON_STRING_IS_CONST ELSE nd.type),
                     obj, item)])

stb_json_additemtoobject(h, obj, string, item) ==
    add_item_to_object(h, obj, string, item)

RECURSIVE walk_next(_, _, _)
walk_next(h, child, index) ==
    IF child # NULL /\ index > 0 THEN walk_next(h, h.n[child].next, index - 1)
    ELSE child

get_array_item(h, array, index) ==
    IF array = NULL THEN NULL ELSE walk_next(h, h.n[array].child, index)

\* A slip that leaves the head's back-pointer on a detached tail.
stb_json_detachitemviapointer_no_tail_fix(h, parent, item) ==
    IF parent = NULL \/ item = NULL
       \/ (item # h.n[parent].child /\ h.n[item].prev = NULL)
    THEN [h |-> h, r |-> NULL]
    ELSE LET it == h.n[item]
         IN Bind([h1 \in {IF item # h.n[parent].child
                 THEN Set(h, it.prev, "next", it.next) ELSE h} |->
            Bind([h2 \in {IF it.next # NULL THEN Set(h1, it.next, "prev", it.prev) ELSE h1} |->
            Bind([h3 \in {IF item = h2.n[parent].child
                 THEN Set(h2, parent, "child", it.next) ELSE h2} |->
            [h |-> Set(Set(h3, item, "prev", NULL), item, "next", NULL),
             r |-> item]])])])

stb_json_detachitemviapointer(h, parent, item) ==
    IF parent = NULL \/ item = NULL
       \/ (item # h.n[parent].child /\ h.n[item].prev = NULL)
    THEN [h |-> h, r |-> NULL]
    ELSE LET it == h.n[item]
         IN Bind([h1 \in {IF item # h.n[parent].child
                 THEN Set(h, it.prev, "next", it.next) ELSE h} |->
            Bind([h2 \in {IF it.next # NULL THEN Set(h1, it.next, "prev", it.prev) ELSE h1} |->
            Bind([h3 \in {IF item = h2.n[parent].child
                 THEN Set(h2, parent, "child", it.next)
                 ELSE IF it.next = NULL
                 THEN Set(h2, h2.n[parent].child, "prev", it.prev)
                 ELSE h2} |->
            [h |-> Set(Set(h3, item, "prev", NULL), item, "next", NULL),
             r |-> item]])])])

stb_json_insertiteminarray(h, array, which, newitem) ==
    IF which < 0 \/ newitem = NULL THEN [h |-> h, r |-> FALSE]
    ELSE Bind([after_inserted \in {get_array_item(h, array, which)} |->
         IF after_inserted = NULL THEN add_item_to_array(h, array, newitem)
         ELSE LET old_prev == h.n[after_inserted].prev
              IN Bind([h2 \in {Set(Set(Set(h, newitem, "next", after_inserted),
                              newitem, "prev", old_prev),
                          after_inserted, "prev", newitem)} |->
                 [h |-> IF after_inserted = h2.n[array].child
                        THEN Set(h2, array, "child", newitem)
                        ELSE Set(h2, old_prev, "next", newitem),
                  r |-> TRUE]])])

stb_json_replaceitemviapointer(h, parent, item, replacement) ==
    IF parent = NULL \/ replacement = NULL \/ item = NULL THEN [h |-> h, r |-> FALSE]
    ELSE IF h.n[parent].child = NULL THEN [h |-> h, r |-> FALSE]
    ELSE IF replacement = item THEN [h |-> h, r |-> TRUE]
    ELSE LET it == h.n[item]
         IN Bind([h1 \in {Set(Set(h, replacement, "next", it.next),
                     replacement, "prev", it.prev)} |->
            Bind([h2 \in {IF it.next # NULL THEN Set(h1, it.next, "prev", replacement)
                 ELSE h1} |->
            Bind([h3 \in {IF item = h2.n[parent].child
                 THEN Set(IF h2.n[h2.n[parent].child].prev = h2.n[parent].child
                          THEN Set(h2, replacement, "prev", replacement)
                          ELSE h2,
                          parent, "child", replacement)
                 ELSE Bind([h3a \in {IF h2.n[replacement].prev # NULL
                           THEN Set(h2, h2.n[replacement].prev, "next", replacement)
                           ELSE h2} |->
                      IF h3a.n[replacement].next = NULL
                      THEN Set(h3a, h3a.n[parent].child, "prev", replacement)
                      ELSE h3a])} |->
            [h |-> stb_json_delete(Set(Set(h3, item, "next", NULL),
                                       item, "prev", NULL), item),
             r |-> TRUE]])])])

(***************************************************************************)
(* Constructors.                                                           *)
(***************************************************************************)
\* number >= INT_MAX ? INT_MAX : number <= INT_MIN ? INT_MIN : (int)number
Clamp(num) ==
    IF BigBits(num.m) + num.e > 31 THEN (IF num.neg THEN INT_MIN ELSE INT_MAX)
    ELSE IF num.neg THEN -DTruncate(num) ELSE DTruncate(num)

Create(h, type) ==
    Bind([a \in {stb_json_new_item(h)} |->
    IF a.r = NULL THEN a ELSE [h |-> Set(a.h, a.r, "type", type), r |-> a.r]])

stb_json_createnull(h) == Create(h, STB_JSON_NULL)
stb_json_createtrue(h) == Create(h, STB_JSON_TRUE)
stb_json_createfalse(h) == Create(h, STB_JSON_FALSE)
stb_json_createarray(h) == Create(h, STB_JSON_ARRAY)
stb_json_createobject(h) == Create(h, STB_JSON_OBJECT)

stb_json_createnumber(h, num) ==
    Bind([a \in {Create(h, STB_JSON_NUMBER)} |->
    IF a.r = NULL THEN a
    ELSE [h |-> Set(Set(a.h, a.r, "valuedouble", num), a.r, "valueint", Clamp(num)),
          r |-> a.r]])

stb_json_createstring(h, string) ==
    Bind([a \in {Create(h, STB_JSON_STRING)} |->
    IF a.r = NULL THEN a
    ELSE Bind([s \in {stb_json_strdup(a.h, string)} |->
         IF s.r = NullStr
         THEN [h |-> stb_json_delete(s.h, a.r), r |-> NULL]
         ELSE [h |-> Set(s.h, a.r, "valuestring", s.r), r |-> a.r]])])

(***************************************************************************)
(* Object access, duplication.                                             *)
(***************************************************************************)
Drop(s, k) == IF k >= Len(s) THEN << >> ELSE SubSeq(s, k + 1, Len(s))
Take(s, k) == IF k >= Len(s) THEN s ELSE SubSeq(s, 1, k)

compare_strings(s1, s2, case_sensitive) ==
    IF s1 = NullStr \/ s2 = NullStr THEN 1
    ELSE IF case_sensitive THEN strcmp(s1, s2)
    ELSE case_insensitive_strcmp(s1, s2)

\* The search loop of get_object_item: it also stops at a child without key.
RECURSIVE find_object_item(_, _, _, _)
find_object_item(h, current_element, name, case_sensitive) ==
    IF current_element = NULL THEN NULL
    ELSE IF h.n[current_element].string = NullStr THEN NULL
    ELSE IF (IF case_sensitive THEN strcmp(name, h.n[current_element].string)
             ELSE case_insensitive_strcmp(name, h.n[current_element].string)) # 0
    THEN find_object_item(h, h.n[current_element].next, name, case_sensitive)
    ELSE current_element

get_object_item(h, obj, name, case_sensitive) ==
    IF obj = NULL \/ name = NullStr THEN NULL
    ELSE find_object_item(h, h.n[obj].child, name, case_sensitive)

stb_json_getobjectitem(h, obj, string) == get_object_item(h, obj, string, FALSE)
stb_json_getobjectitemcasesensitive(h, obj, string) ==
    get_object_item(h, obj, string, TRUE)

stb_json_detachitemfromobject(h, obj, string) ==
    stb_json_detachitemviapointer(h, obj, stb_json_getobjectitem(h, obj, string))

stb_json_detachitemfromobjectcasesensitive(h, obj, string) ==
    stb_json_detachitemviapointer(h, obj,
        stb_json_getobjectitemcasesensitive(h, obj, string))

stb_json_deleteitemfromobject(h, obj, string) ==
    Bind([d \in {stb_json_detachitemfromobject(h, obj, string)} |->
    stb_json_delete(d.h, d.r)])

stb_json_deleteitemfromobjectcasesensitive(h, obj, string) ==
    Bind([d \in {stb_json_detachitemfromobjectcasesensitive(h, obj, string)} |->
    stb_json_delete(d.h, d.r)])

stb_json_isarray(h, item) == item # NULL /\ Kind(h.n[item].type) = STB_JSON_ARRAY
stb_json_isobject(h, item) == item # NULL /\ Kind(h.n[item].type) = STB_JSON_OBJECT
stb_json_isstring(h, item) == item # NULL /\ Kind(h.n[item].type) = STB_JSON_STRING
stb_json_isnull(h, item) == item # NULL /\ Kind(h.n[item].type) = STB_JSON_NULL

STB_JSON_CIRCULAR_LIMIT == 10000

RECURSIVE stb_json_duplicate_rec(_, _, _, _)
RECURSIVE duplicate_children(_, _, _, _, _)

\* The child loop of stb_json_duplicate_rec; next is the last copy linked.
duplicate_children(h, child, newitem, next, depth) ==
    IF child = NULL THEN [h |-> h, ok |-> TRUE, next |-> next]
    ELSE Bind([d \in {stb_json_duplicate_rec(h, child, depth + 1, TRUE)} |->
         IF d.r = NULL THEN [h |-> d.h, ok |-> FALSE, next |-> next]
         ELSE duplicate_children(
                  IF next # NULL
                  THEN Set(Set(d.h, next, "next", d.r), d.r, "prev", next)
                  ELSE Set(d.h, newitem, "child", d.r),
                  d.h.n[child].next, newitem, d.r, depth)])

stb_json_duplicate_rec(h, item, depth, recurse) ==
    IF item = NULL THEN [h |-> h, r |-> NULL]
    ELSE Bind([a \in {stb_json_new_item(h)} |->
         IF a.r = NULL THEN [h |-> a.h, r |-> NULL]
         ELSE LET src == h.n[item]
                  wantkey == src.string # NullStr /\ ~IsConstKey(src.type)
                  wantval == src.valuestring # NullStr
              IN Bind([h1 \in {[a.h EXCEPT !.n[a.r] =
                          [src EXCEPT !.string = NullStr, !.valuestring = NullStr,
                                      !.child = NULL, !.next = NULL,
                                      !.prev = NULL]]} |->
                 Bind([k \in {IF wantkey THEN stb_json_strdup(h1, src.string)
                      ELSE [h |-> h1, r |-> NullStr]} |->
                 IF wantkey /\ k.r = NullStr
                 THEN [h |-> stb_json_delete(k.h, a.r), r |-> NULL]
                 ELSE
                 Bind([v \in {IF wantval
                      THEN stb_json_strdup(Set(k.h, a.r, "string", k.r),
                                           src.valuestring)
                      ELSE [h |-> Set(k.h, a.r, "string", k.r), r |-> NullStr]} |->
                 IF wantval /\ v.r = NullStr
                 THEN [h |-> stb_json_delete(v.h, a.r), r |-> NULL]
                 ELSE
                 Bind([h3 \in {Set(v.h, a.r, "valuestring", v.r)} |->
                 IF ~recurse THEN [h |-> h3, r |-> a.r]
                 ELSE IF depth >= STB_JSON_CIRCULAR_LIMIT
                 THEN [h |-> stb_json_delete(h3, a.r), r |-> NULL]
                 ELSE
                 Bind([c \in {duplicate_children(h3, src.child, a.r, NULL, depth)} |->
                 IF ~c.ok THEN [h |-> stb_json_delete(c.h, a.r), r |-> NULL]
                 ELSE [h |-> IF c.h.n[a.r].child # NULL
                             THEN Set(c.h, c.h.n[a.r].child, "prev", c.next)
                             ELSE c.h,
                       r |-> a.r]])])])])])])

stb_json_duplicate(h, item, recurse) == stb_json_duplicate_rec(h, item, 0, recurse)

(***************************************************************************)
(* Sorting and comparison (the utilities' comparator sorts its operands).  *)
(***************************************************************************)
\* fabs(a - b) <= maxVal * DBL_EPSILON
DBL_EPSILON == [neg |-> FALSE, m |-> <<1>>, e |-> 1 - DBL_MANT_DIG]

compare_double(a, b) ==
    \/ a = b
    \/ DLessEq(fabs(DSub(a, b)),
               DMul(IF DLessEq(fabs(a), fabs(b)) THEN fabs(b) ELSE fabs(a), DBL_EPSILON))

\* The halving loop of sort_list: second advances one node, current two.
RECURSIVE sort_list_middle(_, _, _)
sort_list_middle(h, second, current) ==
    IF current # NULL /\ h.n[current].next # NULL
    THEN sort_list_middle(h, h.n[second].next, h.n[h.n[current].next].next)
    ELSE second

sort_list_pick(h, first, second, case_sensitive) ==
    IF compare_strings(h.n[first].string, h.n[second].string, case_sensitive) < 0
    THEN first ELSE second

\* Link a node after the tail of the merged list (nothing to do for the first).
sort_list_link(h, result, result_tail, node) ==
    IF result = NULL THEN h
    ELSE Set(Set(h, result_tail, "next", node), node, "prev", result_tail)

\* The merge loop of sort_list and the two tail attachments after it.
RECURSIVE sort_list_merge(_, _, _, _, _, _)
sort_list_merge(h, first, second, result, result_tail, case_sensitive) ==
    IF first # NULL /\ second # NULL
    THEN Bind([smaller \in {sort_list_pick(h, first, second, case_sensitive)} |->
         Bind([h1 \in {sort_list_link(h, result, result_tail, smaller)} |->
         sort_list_merge(h1,
                         IF smaller = first THEN h1.n[first].next ELSE first,
                         IF smaller = first THEN second ELSE h1.n[second].next,
                         IF result = NULL THEN smaller ELSE result,
                         smaller, case_sensitive)])])
    ELSE IF first # NULL
    THEN [h |-> sort_list_link(h, result, result_tail, first),
          r |-> IF result = NULL THEN first ELSE result]
    ELSE IF second # NULL
    THEN [h |-> sort_list_link(h, result, result_tail, second),
          r |-> IF result = NULL THEN second ELSE result]
    ELSE [h |-> h, r |-> result]

RECURSIVE sort_list(_, _, _)
sort_list(h, list, case_sensitive) ==
    IF list = NULL THEN [h |-> h, r |-> list]
    ELSE IF h.n[list].next = NULL THEN [h |-> h, r |-> list]
    ELSE Bind([second \in {sort_list_middle(h, list, list)} |->
         IF second = NULL THEN [h |-> h, r |-> list]
         ELSE IF h.n[second].prev = NULL THEN [h |-> h, r |-> list]
         ELSE Bind([f \in {sort_list(Set(Set(h, h.n[second].prev, "next", NULL),
                                 second, "prev", NULL),
                             list, case_sensitive)} |->
              Bind([s \in {sort_list(f.h, second, case_sensitive)} |->
              sort_list_merge(s.h, f.r, s.r, NULL, NULL, case_sensitive)])])])

sort_object(h, obj, case_sensitive) ==
    IF obj = NULL THEN h
    ELSE Bind([s \in {sort_list(h, h.n[obj].child, case_sensitive)} |->
         Set(s.h, obj, "child", s.r)])

stb_json_utils_sortobject(h, obj) == sort_object(h, obj, FALSE)
stb_json_utils_sortobjectcasesensitive(h, obj) == sort_object(h, obj, TRUE)

RECURSIVE compare_json(_, _, _, _)
RECURSIVE compare_json_children(_, _, _, _, _)

\* The child loops of compare_json; keyed is TRUE in the object case.
compare_json_children(h, a_child, b_child, case_sensitive, keyed) ==
    IF a_child = NULL \/ b_child = NULL
    THEN [h |-> h, r |-> a_child = NULL /\ b_child = NULL]
    ELSE IF keyed /\ compare_strings(h.n[a_child].string, h.n[b_child].string,
                                     case_sensitive) # 0
    THEN [h |-> h, r |-> FALSE]
    ELSE Bind([c \in {compare_json(h, a_child, b_child, case_sensitive)} |->
         IF ~c.r THEN c
         ELSE compare_json_children(c.h, c.h.n[a_child].next,
                                    c.h.n[b_child].next, case_sensitive, keyed)])

compare_json(h, a, b, case_sensitive) ==
    IF a = NULL \/ b = NULL THEN [h |-> h, r |-> FALSE]
    ELSE IF Kind(h.n[a].type) # Kind(h.n[b].type) THEN [h |-> h, r |-> FALSE]
    ELSE IF Kind(h.n[a].type) = STB_JSON_NUMBER
    THEN [h |-> h, r |-> h.n[a].valueint = h.n[b].valueint
                         /\ compare_double(h.n[a].valuedouble, h.n[b].valuedouble)]
    ELSE IF Kind(h.n[a].type) \in {STB_JSON_STRING, STB_JSON_RAW}
    THEN [h |-> h, r |-> h.n[a].valuestring # NullStr
                         /\ h.n[b].valuestring # NullStr
                         /\ strcmp(h.n[a].valuestring, h.n[b].valuestring) = 0]
    ELSE IF Kind(h.n[a].type) = STB_JSON_ARRAY
    THEN compare_json_children(h, h.n[a].child, h.n[b].child, case_sensitive, FALSE)
    ELSE IF Kind(h.n[a].type) = STB_JSON_OBJECT
    THEN Bind([h2 \in {sort_object(sort_object(h, a, case_sensitive), b, case_sensitive)} |->
         compare_json_children(h2, h2.n[a].child, h2.n[b].child,
                               case_sensitive, TRUE)])
    ELSE [h |-> h, r |-> TRUE]

(***************************************************************************)
(* JSON Pointer (RFC 6901).  A path is a sequence of bytes.                *)
(***************************************************************************)
RECURSIVE compare_pointers_loop(_, _, _)
compare_pointers_loop(name, pointer, case_sensitive) ==
    IF At(name, 1) # NUL /\ At(pointer, 1) # NUL /\ At(pointer, 1) # "/"
    THEN IF At(pointer, 1) = "~"
         THEN IF (At(pointer, 2) # "0" \/ At(name, 1) # "~")
                 /\ (At(pointer, 2) # "1" \/ At(name, 1) # "/")
              THEN FALSE
              ELSE compare_pointers_loop(Drop(name, 1), Drop(pointer, 2),
                                         case_sensitive)
         ELSE IF (case_sensitive /\ At(name, 1) # At(pointer, 1))
                 \/ (~case_sensitive
                     /\ tolower(At(name, 1)) # tolower(At(pointer, 1)))
              THEN FALSE
              ELSE compare_pointers_loop(Drop(name, 1), Drop(pointer, 1),
                                         case_sensitive)
    ELSE At(name, 1) = NUL /\ At(pointer, 1) \in {NUL, "/"}

compare_pointers(name, pointer, case_sensitive) ==
    IF name = NullStr \/ pointer = NullStr THEN FALSE
    ELSE compare_pointers_loop(name, pointer, case_sensitive)

\* A slip that copies the key without escaping '/' and '~'.
encode_string_as_pointer_verbatim(src) == src

RECURSIVE encode_string_as_pointer(_)
encode_string_as_pointer(src) ==
    IF src = << >> THEN << >>
    ELSE (IF Head(src) = "/" THEN <<"~", "1">>
          ELSE IF Head(src) = "~" THEN <<"~", "0">>
          ELSE <<Head(src)>>) \o encode_string_as_pointer(Tail(src))

\* The digit loop of decode_array_index_from_pointer.
RECURSIVE parse_index_digits(_, _, _)
parse_index_digits(pointer, position, parsed_index) ==
    IF IsDigit(At(pointer, position + 1))
    THEN parse_index_digits(pointer, position + 1,
                            10 * parsed_index + (Ord(At(pointer, position + 1)) - 48))
    ELSE [position |-> position, index |-> parsed_index]

decode_array_index_from_pointer(pointer) ==
    IF At(pointer, 1) = "0" /\ At(pointer, 2) # NUL /\ At(pointer, 2) # "/"
    THEN [ok |-> FALSE, index |-> 0]
    ELSE Bind([d \in {parse_index_digits(pointer, 0, 0)} |->
         IF (At(pointer, d.position + 1) # NUL
             /\ At(pointer, d.position + 1) # "/") \/ d.position = 0
         THEN [ok |-> FALSE, index |-> 0]
         ELSE [ok |-> TRUE, index |-> d.index]])

\* Advance a path past the current reference token.
RECURSIVE skip_token(_)
skip_token(pointer) ==
    IF At(pointer, 1) # NUL /\ At(pointer, 1) # "/" THEN skip_token(Tail(pointer))
    ELSE pointer

\* The member search of get_item_from_pointer's object branch.
RECURSIVE find_by_pointer(_, _, _, _)
find_by_pointer(h, current_element, pointer, case_sensitive) ==
    IF current_element # NULL
       /\ ~compare_pointers(h.n[current_element].string, pointer, case_sensitive)
    THEN find_by_pointer(h, h.n[current_element].next, pointer, case_sensitive)
    ELSE current_element

RECURSIVE get_item_from_pointer(_, _, _, _)
get_item_from_pointer(h, obj, pointer, case_sensitive) ==
    IF pointer = NullStr THEN NULL
    ELSE IF At(pointer, 1) = "/" /\ obj # NULL
    THEN IF stb_json_isarray(h, obj)
         THEN Bind([d \in {decode_array_index_from_pointer(Tail(pointer))} |->
              IF ~d.ok THEN NULL
              ELSE get_item_from_pointer(h, get_array_item(h, obj, d.index),
                                         skip_token(Tail(pointer)),
                                         case_sensitive)])
         ELSE IF stb_json_isobject(h, obj)
         THEN get_item_from_pointer(h,
                  find_by_pointer(h, h.n[obj].child, Tail(pointer), case_sensitive),
                  skip_token(Tail(pointer)), case_sensitive)
         ELSE NULL
    ELSE obj

stb_json_utils_getpointer(h, obj, pointer) ==
    get_item_from_pointer(h, obj, pointer, FALSE)
stb_json_utils_getpointercasesensitive(h, obj, pointer) ==
    get_item_from_pointer(h, obj, pointer, TRUE)

\* decode_pointer_inplace: on a bad escape the buffer keeps the bytes decoded
\* so far followed by the undecoded remainder of the original.
RECURSIVE decode_pointer_loop(_, _, _)
decode_pointer_loop(original, string, decoded) ==
    IF string = << >> THEN decoded
    ELSE IF Head(string) = "~"
    THEN IF At(string, 2) = "0"
         THEN decode_pointer_loop(original, Drop(string, 2), Append(decoded, "~"))
         ELSE IF At(string, 2) = "1"
         THEN decode_pointer_loop(original, Drop(string, 2), Append(decoded, "/"))
         ELSE decoded \o Drop(original, Len(decoded))
    ELSE decode_pointer_loop(original, Tail(string), Append(decoded, Head(string)))

decode_pointer_inplace(string) ==
    IF string = NullStr THEN NullStr ELSE decode_pointer_loop(string, string, << >>)

\* strrchr(path, '/'): index of the last '/', 0 when there is none.
strrchr_slash(path) ==
    IF \E i \in 1..Len(path) : path[i] = "/"
    THEN CHOOSE i \in 1..Len(path) :
             path[i] = "/" /\ \A j \in (i + 1)..Len(path) : path[j] # "/"
    ELSE 0

(***************************************************************************)
(* JSON Patch (RFC 6902): applying.                                        *)
(***************************************************************************)
detach_item_from_array(h, array, which) ==
    Bind([c \in {walk_next(h, h.n[array].child, which)} |->
    IF c = NULL THEN [h |-> h, r |-> NULL]
    ELSE LET it == h.n[c]
         IN Bind([h1 \in {IF c # h.n[array].child
                 THEN Set(h, it.prev, "next", it.next) ELSE h} |->
            Bind([h2 \in {IF it.next # NULL THEN Set(h1, it.next, "prev", it.prev) ELSE h1} |->
            Bind([h3 \in {IF c = h2.n[array].child
                 THEN Set(h2, array, "child", it.next)
                 ELSE IF it.next = NULL
                 THEN Set(h2, h2.n[array].child, "prev", it.prev)
                 ELSE h2} |->
            [h |-> Set(Set(h3, c, "prev", NULL), c, "next", NULL), r |-> c]])])])])

detach_path(h, obj, path, case_sensitive) ==
    IF path = NullStr \/ ~Grant(h) THEN [h |-> h, r |-> NULL]
    ELSE Bind([slash \in {strrchr_slash(path)} |->
         IF slash = 0 THEN [h |-> Spend(h), r |-> NULL]
         ELSE
         Bind([child_pointer \in {decode_pointer_inplace(Drop(path, slash))} |->
         Bind([parent \in {get_item_from_pointer(h, obj, Take(path, slash - 1), case_sensitive)} |->
         IF stb_json_isarray(h, parent)
         THEN Bind([d \in {decode_array_index_from_pointer(child_pointer)} |->
              IF ~d.ok THEN [h |-> Spend(h), r |-> NULL]
              ELSE detach_item_from_array(Spend(h), parent, d.index)])
         ELSE IF stb_json_isobject(h, parent)
         THEN IF case_sensitive
              THEN stb_json_detachitemfromobjectcasesensitive(Spend(h), parent,
                                                              child_pointer)
              ELSE stb_json_detachitemfromobject(Spend(h), parent, child_pointer)
         ELSE [h |-> Spend(h), r |-> NULL]])])])

\* A slip that always links the new item in front of the first element.
insert_item_in_array_at_front(h, array, which, newitem) ==
    LET child == h.n[array].child
    IN IF child = NULL THEN add_item_to_array(h, array, newitem)
       ELSE [h |-> Set(Set(Set(Set(h, newitem, "next", child),
                               newitem, "prev", h.n[child].prev),
                           child, "prev", newitem),
                       array, "child", newitem),
             r |-> TRUE]

insert_item_in_array(h, array, which, newitem) ==
    Bind([child \in {walk_next(h, h.n[array].child, which)} |->
    IF child = NULL THEN add_item_to_array(h, array, newitem)
    ELSE Bind([h2 \in {Set(Set(Set(h, newitem, "next", child),
                      newitem, "prev", h.n[child].prev),
                  child, "prev", newitem)} |->
         [h |-> IF child = h2.n[array].child
                THEN Set(h2, array, "child", newitem)
                ELSE Set(h2, h2.n[newitem].prev, "next", newitem),
          r |-> TRUE]])])

INVALID == 0
ADD == 1
REMOVE == 2
REPLACE == 3
MOVE == 4
COPY == 5
TEST == 6

K_op == <<"o", "p">>
K_path == <<"p", "a", "t", "h">>
K_value == <<"v", "a", "l", "u", "e">>
K_from == <<"f", "r", "o", "m">>
S_add == <<"a", "d", "d">>
S_remove == <<"r", "e", "m", "o", "v", "e">>
S_replace == <<"r", "e", "p", "l", "a", "c", "e">>
S_move == <<"m", "o", "v", "e">>
S_copy == <<"c", "o", "p", "y">>
S_test == <<"t", "e", "s", "t">>

decode_patch_operation(h, patch, case_sensitive) ==
    Bind([operation \in {get_object_item(h, patch, K_op, case_sensitive)} |->
    IF ~stb_json_isstring(h, operation) THEN INVALID
    ELSE LET op == h.n[operation].valuestring
         IN IF op = S_add THEN ADD
            ELSE IF op = S_remove THEN REMOVE
            ELSE IF op = S_replace THEN REPLACE
            ELSE IF op = S_move THEN MOVE
            ELSE IF op = S_copy THEN COPY
            ELSE IF op = S_test THEN TEST
            ELSE INVALID])

\* overwrite_item: the root's strings and children are released whatever its
\* flags, then the replacement struct is copied over it.
overwrite_item(h, root, replacement) ==
    IF root = NULL THEN h
    ELSE Bind([h2 \in {free_if(free_if(h, h.n[root].string # NullStr),
                      h.n[root].valuestring # NullStr)} |->
         [(IF h.n[root].child # NULL THEN stb_json_delete(h2, h.n[root].child)
           ELSE h2) EXCEPT !.n[root] = replacement]])

\* apply_patch, lines 2106-2122: the empty path replaces the root in place.
apply_patch_root(h, obj, patch, opcode, case_sensitive) ==
    IF opcode = REMOVE THEN [h |-> overwrite_item(h, obj, ZeroNode), r |-> 0]
    ELSE Bind([value \in {get_object_item(h, patch, K_value, case_sensitive)} |->
         IF value = NULL THEN [h |-> h, r |-> 7]
         ELSE Bind([duplicate \in {stb_json_duplicate(h, value, TRUE)} |->
              IF duplicate.r = NULL THEN [h |-> duplicate.h, r |-> 8]
              ELSE Bind([over \in {deallocate(overwrite_item(duplicate.h, obj,
                                                  duplicate.h.n[duplicate.r]),
                                   duplicate.r)} |->
                   [h |-> IF over.n[obj].string # NullStr
                          THEN Set(free_string(over), obj, "string", NullStr)
                          ELSE over,
                    r |-> 0]])])])

\* apply_patch, lines 2131-2145: the value to place, or the error code.
apply_patch_value(h, obj, patch, opcode, case_sensitive) ==
    IF opcode \in {MOVE, COPY}
    THEN Bind([from \in {get_object_item(h, patch, K_from, case_sensitive)} |->
         IF from = NULL THEN [h |-> h, value |-> NULL, err |-> 4]
         ELSE IF opcode = MOVE
         THEN Bind([d \in {detach_path(h, obj, h.n[from].valuestring, case_sensitive)} |->
              [h |-> d.h, value |-> d.r, err |-> IF d.r = NULL THEN 5 ELSE 0]])
         ELSE Bind([g \in {get_item_from_pointer(h, obj, h.n[from].valuestring,
                                         case_sensitive)} |->
              IF g = NULL THEN [h |-> h, value |-> NULL, err |-> 5]
              ELSE Bind([c \in {stb_json_duplicate(h, g, TRUE)} |->
                   [h |-> c.h, value |-> c.r,
                    err |-> IF c.r = NULL THEN 6 ELSE 0]])])])
    ELSE Bind([value \in {get_object_item(h, patch, K_value, case_sensitive)} |->
         IF value = NULL THEN [h |-> h, value |-> NULL, err |-> 7]
         ELSE Bind([c \in {stb_json_duplicate(h, value, TRUE)} |->
              [h |-> c.h, value |-> c.r, err |-> IF c.r = NULL THEN 8 ELSE 0]])])

\* apply_patch, lines 2147-2176: link the value under the parent of the path.
apply_patch_place(h, obj, path, value, case_sensitive) ==
    IF ~Grant(h) THEN [h |-> stb_json_delete(h, value), r |-> 9]
    ELSE
    Bind([h0 \in {Spend(h)} |->
    Bind([slash \in {strrchr_slash(path)} |->
    IF slash = 0 THEN [h |-> stb_json_delete(h0, value), r |-> 9]
    ELSE
    Bind([child_pointer \in {decode_pointer_inplace(Drop(path, slash))} |->
    Bind([parent \in {get_item_from_pointer(h0, obj, Take(path, slash - 1), case_sensitive)} |->
    IF parent = NULL THEN [h |-> stb_json_delete(h0, value), r |-> 9]
    ELSE IF stb_json_isarray(h0, parent)
    THEN IF child_pointer = <<"-">>
         THEN [h |-> stb_json_additemtoarray(h0, parent, value).h, r |-> 0]
         ELSE Bind([d \in {decode_array_index_from_pointer(child_pointer)} |->
              IF ~d.ok THEN [h |-> stb_json_delete(h0, value), r |-> 11]
              ELSE Bind([ins \in {insert_item_in_array(h0, parent, d.index, value)} |->
                   IF ~ins.r THEN [h |-> stb_json_delete(ins.h, value), r |-> 10]
                   ELSE [h |-> ins.h, r |-> 0]])])
    ELSE IF stb_json_isobject(h0, parent)
    THEN [h |-> stb_json_additemtoobject(
                    IF case_sensitive
                    THEN stb_json_deleteitemfromobjectcasesensitive(
                             h0, parent, child_pointer)
                    ELSE stb_json_deleteitemfromobject(h0, parent, child_pointer),
                    parent, child_pointer, value).h,
          r |-> 0]
    ELSE [h |-> stb_json_delete(h0, value), r |-> 9]])])])])

apply_patch(h, obj, patch, case_sensitive) ==
    Bind([path \in {get_object_item(h, patch, K_path, case_sensitive)} |->
    IF ~stb_json_isstring(h, path) THEN [h |-> h, r |-> 2]
    ELSE
    Bind([opcode \in {decode_patch_operation(h, patch, case_sensitive)} |->
    IF opcode = INVALID THEN [h |-> h, r |-> 3]
    ELSE IF opcode = TEST
    THEN Bind([cmp \in {compare_json(h,
                  get_item_from_pointer(h, obj, h.n[path].valuestring,
                                        case_sensitive),
                  get_object_item(h, patch, K_value, case_sensitive),
                  case_sensitive)} |->
         [h |-> cmp.h, r |-> IF cmp.r THEN 0 ELSE 1]])
    ELSE IF h.n[path].valuestring = << >> /\ opcode \in {REMOVE, REPLACE, ADD}
    THEN apply_patch_root(h, obj, patch, opcode, case_sensitive)
    ELSE
    Bind([old_item \in {IF opcode \in {REMOVE, REPLACE}
         THEN detach_path(h, obj, h.n[path].valuestring, case_sensitive)
         ELSE [h |-> h, r |-> NULL]} |->
    IF opcode \in {REMOVE, REPLACE} /\ old_item.r = NULL
    THEN [h |-> old_item.h, r |-> 13]
    ELSE
    Bind([h1 \in {stb_json_delete(old_item.h, old_item.r)} |->
    IF opcode = REMOVE THEN [h |-> h1, r |-> 0]
    ELSE
    Bind([v \in {apply_patch_value(h1, obj, patch, opcode, case_sensitive)} |->
    IF v.err # 0 THEN [h |-> v.h, r |-> v.err]
    ELSE apply_patch_place(v.h, obj, h1.n[path].valuestring, v.value,
                           case_sensitive)])])])])])

(***************************************************************************)
(* JSON Patch: generating.                                                 *)
(***************************************************************************)
\* sprintf("%lu", index)
RECURSIVE Dec(_)
Dec(n) == IF n < 10 THEN <<Chr(48 + n)>> ELSE Dec(n \div 10) \o <<Chr(48 + (n % 10))>>

\* suffix = NullStr and value = NULL stand for the absent arguments.  The
\* buffer of the full path is taken from the allocator and given back.
compose_patch(h, plist, operation, path, suffix, value) ==
    IF plist = NULL \/ operation = NullStr \/ path = NullStr THEN h
    ELSE
    Bind([p \in {stb_json_createobject(h)} |->
    IF p.r = NULL THEN p.h
    ELSE
    Bind([s1 \in {stb_json_createstring(p.h, operation)} |->
    Bind([a1 \in {stb_json_additemtoobject(s1.h, p.r, K_op, s1.r)} |->
    Bind([s2 \in {IF suffix = NullStr THEN stb_json_createstring(a1.h, path)
         ELSE stb_json_createstring(
                  Spend(a1.h),
                  path \o <<"/">> \o encode_string_as_pointer(suffix))} |->
    Bind([a2 \in {stb_json_additemtoobject(s2.h, p.r, K_path, s2.r)} |->
    Bind([a3 \in {IF value # NULL
         THEN Bind([d \in {stb_json_duplicate(a2.h, value, TRUE)} |->
                   stb_json_additemtoobject(d.h, p.r, K_value, d.r).h])
         ELSE a2.h} |->
    stb_json_additemtoarray(a3, plist, p.r).h])])])])])])

RECURSIVE create_patches(_, _, _, _, _, _)
RECURSIVE create_patches_array(_, _, _, _, _, _, _)
RECURSIVE create_patches_object(_, _, _, _, _, _)

\* The three loops of the array case, lines 2252-2262.
create_patches_array(h, plist, path, from_child, to_child, index, case_sensitive) ==
    IF from_child # NULL /\ to_child # NULL
    THEN Bind([h1 \in {create_patches(h, plist, path \o <<"/">> \o Dec(index),
                             from_child, to_child, case_sensitive)} |->
         create_patches_array(h1, plist, path, h1.n[from_child].next,
                              h1.n[to_child].next, index + 1, case_sensitive)])
    ELSE IF from_child # NULL
    THEN create_patches_array(
             compose_patch(h, plist, S_remove, path, Dec(index), NULL),
             plist, path, h.n[from_child].next, to_child, index + 1,
             case_sensitive)
    ELSE IF to_child # NULL
    THEN create_patches_array(
             compose_patch(h, plist, S_add, path, <<"-">>, to_child),
             plist, path, from_child, h.n[to_child].next, index,
             case_sensitive)
    ELSE h

\* The merge walk of the object case, lines 2271-2294.
create_patches_object(h, plist, path, from_child, to_child, case_sensitive) ==
    IF from_child = NULL /\ to_child = NULL THEN h
    ELSE
    Bind([diff \in {IF from_child = NULL THEN 1
         ELSE IF to_child = NULL THEN -1
         ELSE compare_strings(h.n[from_child].string, h.n[to_child].string,
                              case_sensitive)} |->
    IF diff = 0
    THEN Bind([h1 \in {create_patches(h, plist,
                  path \o <<"/">>
                       \o encode_string_as_pointer(h.n[from_child].string),
                  from_child, to_child, case_sensitive)} |->
         create_patches_object(h1, plist, path, h1.n[from_child].next,
                               h1.n[to_child].next, case_sensitive)])
    ELSE IF diff < 0
    THEN create_patches_object(
             compose_patch(h, plist, S_remove, path, h.n[from_child].string, NULL),
             plist, path, h.n[from_child].next, to_child, case_sensitive)
    ELSE create_patches_object(
             compose_patch(h, plist, S_add, path, h.n[to_child].string, to_child),
             plist, path, from_child, h.n[to_child].next, case_sensitive)])

create_patches(h, plist, path, from, to, case_sensitive) ==
    IF from = NULL \/ to = NULL THEN h
    ELSE IF Kind(h.n[from].type) # Kind(h.n[to].type)
            \/ (Kind(h.n[from].type) = STB_JSON_NUMBER
                /\ (h.n[from].valueint # h.n[to].valueint
                    \/ ~compare_double(h.n[from].valuedouble, h.n[to].valuedouble)))
            \/ (Kind(h.n[from].type) = STB_JSON_STRING
                /\ strcmp(h.n[from].valuestring, h.n[to].valuestring) # 0)
    THEN compose_patch(h, plist, S_replace, path, NullStr, to)
    ELSE IF Kind(h.n[from].type) = STB_JSON_ARRAY
    THEN create_patches_array(h, plist, path, h.n[from].child, h.n[to].child,
                              0, case_sensitive)
    ELSE IF Kind(h.n[from].type) = STB_JSON_OBJECT
    THEN Bind([h2 \in {sort_object(sort_object(h, from, case_sensitive), to,
                          case_sensitive)} |->
         create_patches_object(h2, plist, path, h2.n[from].child,
                               h2.n[to].child, case_sensitive)])
    ELSE h

stb_json_utils_generatepatches(h, from, to) ==
    IF from = NULL \/ to = NULL THEN [h |-> h, r |-> NULL]
    ELSE Bind([created \in {stb_json_createarray(h)} |->
         [h |-> create_patches(created.h, created.r, << >>, from, to, FALSE),
          r |-> created.r]])

(***************************************************************************)
(* JSON Merge Patch (RFC 7396).                                            *)
(***************************************************************************)
RECURSIVE merge_patch(_, _, _, _)
RECURSIVE merge_patch_members(_, _, _, _)

\* The member loop of merge_patch, lines 2333-2347.
merge_patch_members(h, target, patch_child, case_sensitive) ==
    IF patch_child = NULL THEN [h |-> h, r |-> target]
    ELSE IF stb_json_isnull(h, patch_child)
    THEN merge_patch_members(
             IF case_sensitive
             THEN stb_json_deleteitemfromobjectcasesensitive(
                      h, target, h.n[patch_child].string)
             ELSE stb_json_deleteitemfromobject(h, target, h.n[patch_child].string),
             target, h.n[patch_child].next, case_sensitive)
    ELSE
    Bind([replace_me \in {IF case_sensitive
         THEN stb_json_detachitemfromobjectcasesensitive(
                  h, target, h.n[patch_child].string)
         ELSE stb_json_detachitemfromobject(h, target, h.n[patch_child].string)} |->
    Bind([replacement \in {merge_patch(replace_me.h, replace_me.r, patch_child, case_sensitive)} |->
    IF replacement.r = NULL
    THEN [h |-> stb_json_delete(replacement.h, target), r |-> NULL]
    ELSE
    Bind([added \in {stb_json_additemtoobject(replacement.h, target,
                                  replacement.h.n[patch_child].string,
                                  replacement.r).h} |->
    merge_patch_members(added, target, added.n[patch_child].next,
                        case_sensitive)])])])

\* merge_patch without the test of line 2328: the target is always replaced
\* by a new object.
merge_patch_always_coercing(h, target, patch, case_sensitive) ==
    IF ~stb_json_isobject(h, patch)
    THEN stb_json_duplicate(stb_json_delete(h, target), patch, TRUE)
    ELSE Bind([t \in {stb_json_createobject(stb_json_delete(h, target))} |->
         merge_patch_members(t.h, t.r, t.h.n[patch].child, case_sensitive)])

merge_patch(h, target, patch, case_sensitive) ==
    IF ~stb_json_isobject(h, patch)
    THEN stb_json_duplicate(stb_json_delete(h, target), patch, TRUE)
    ELSE Bind([t \in {IF ~stb_json_isobject(h, target)
              THEN stb_json_createobject(stb_json_delete(h, target))
              ELSE [h |-> h, r |-> target]} |->
         merge_patch_members(t.h, t.r, t.h.n[patch].child, case_sensitive)])

stb_json_utils_mergepatch(h, target, patch) == merge_patch(h, target, patch, FALSE)
\* The entry point with merge_patch folding the case of the keys.
mergepatchcasesensitive_folding_case(h, target, patch) ==
    merge_patch(h, target, patch, FALSE)
stb_json_utils_mergepatchcasesensitive(h, target, patch) ==
    merge_patch(h, target, patch, TRUE)

RECURSIVE generate_merge_patch(_, _, _, _)
RECURSIVE generate_merge_patch_members(_, _, _, _, _)

\* The merge walk of generate_merge_patch, lines 2370-2389; a nested
\* difference is always generated by the case-insensitive entry point.
generate_merge_patch_members(h, patch, from_child, to_child, case_sensitive) ==
    IF from_child = NULL /\ to_child = NULL THEN h
    ELSE
    Bind([diff \in {IF from_child = NULL THEN 1
         ELSE IF to_child = NULL THEN -1
         ELSE compare_strings(h.n[from_child].string, h.n[to_child].string,
                              case_sensitive)} |->
    IF diff < 0
    THEN Bind([nul \in {stb_json_createnull(h)} |->
         generate_merge_patch_members(
             stb_json_additemtoobject(nul.h, patch, h.n[from_child].string,
                                      nul.r).h,
             patch, h.n[from_child].next, to_child, case_sensitive)])
    ELSE IF diff > 0
    THEN Bind([dup \in {stb_json_duplicate(h, to_child, TRUE)} |->
         generate_merge_patch_members(
             stb_json_additemtoobject(dup.h, patch, h.n[to_child].string,
                                      dup.r).h,
             patch, from_child, h.n[to_child].next, case_sensitive)])
    ELSE
    Bind([cmp \in {compare_json(h, from_child, to_child, case_sensitive)} |->
    Bind([h1 \in {IF cmp.r THEN cmp.h
         ELSE Bind([sub \in {generate_merge_patch(cmp.h, from_child, to_child, FALSE)} |->
              stb_json_additemtoobject(sub.h, patch, sub.h.n[to_child].string,
                                       sub.r).h])} |->
    generate_merge_patch_members(h1, patch, h1.n[from_child].next,
                                 h1.n[to_child].next, case_sensitive)])])])

generate_merge_patch(h, from, to, case_sensitive) ==
    IF to = NULL THEN stb_json_createnull(h)
    ELSE IF ~stb_json_isobject(h, to) \/ ~stb_json_isobject(h, from)
    THEN stb_json_duplicate(h, to, TRUE)
    ELSE
    Bind([h2 \in {sort_object(sort_object(h, from, case_sensitive), to, case_sensitive)} |->
    Bind([patch \in {stb_json_createobject(h2)} |->
    IF patch.r = NULL THEN patch
    ELSE
    Bind([h3 \in {generate_merge_patch_members(patch.h, patch.r, patch.h.n[from].child,
                                      patch.h.n[to].child, case_sensitive)} |->
    IF h3.n[patch.r].child = NULL
    THEN [h |-> stb_json_delete(h3, patch.r), r |-> NULL]
    ELSE [h |-> h3, r |-> patch.r]])])])

stb_json_utils_generatemergepatch(h, from, to) ==
    generate_merge_patch(h, from, to, FALSE)
stb_json_utils_generatemergepatchcasesensitive(h, from, to) ==
    generate_merge_patch(h, from, to, TRUE)

(***************************************************************************)
(* Reading a tree back.                                                    *)
(***************************************************************************)
\* The nodes met by following next from a node, stopping at a node met
\* before (so that a malformed list still yields a finite sequence).
RECURSIVE ChainFrom(_, _, _)
ChainFrom(h, node, seen) ==
    IF node = NULL \/ node \in seen THEN << >>
    ELSE << node >> \o ChainFrom(h, h.n[node].next, seen \cup {node})

Children(h, parent) == ChainFrom(h, h.n[parent].child, {})

Last(s) == s[Len(s)]

Range(s) == {s[i] : i \in 1..Len(s)}

\* The list invariant of one container.
ListOk(h, parent) ==
    LET ch == Children(h, parent)
    IN ch # << >> =>
          /\ h.n[ch[1]].prev = Last(ch)
          /\ h.n[Last(ch)].next = NULL

(***************************************************************************)
(* Tree editing: one container, edited through the public tree API.        *)
(***************************************************************************)
MaxNodes == 4
MaxWhich == 2
TreeKeys == { << "a" >>, << "b" >> }

Pool == heap.used \ ({object} \cup Range(ghost.members))

InsertAt(s, i, x) == SubSeq(s, 1, i) \o << x >> \o SubSeq(s, i + 1, Len(s))
RemoveAt(s, i) == SubSeq(s, 1, i - 1) \o SubSeq(s, i + 1, Len(s))
IndexOf(s, x) == CHOOSE i \in 1..Len(s) : s[i] = x

TreeInit ==
    /\ \E type \in {STB_JSON_ARRAY, STB_JSON_OBJECT} :
          \E c \in {Create(EmptyHeap, type)} : heap = c.h /\ object = c.r
    /\ pc = "tree"
    /\ other = NULL /\ patches = NULL /\ current_patch = NULL /\ status = 0
    /\ global_error = [json |-> NullStr, position |-> 0]
    /\ input = << >>
    /\ ghost = [members |-> << >>, done |-> {}]

TreeFrame == UNCHANGED <<pc, object, other, patches, current_patch, status,
                         global_error, input>>

TreeCreate ==
    /\ Cardinality(heap.used) < MaxNodes
    /\ heap' = stb_json_createnumber(heap, DInt(1)).h
    /\ UNCHANGED ghost
    /\ TreeFrame

TreeAddItemToArray ==
    /\ Kind(heap.n[object].type) = STB_JSON_ARRAY
    /\ \E item \in Pool :
          \E a \in {stb_json_additemtoarray(heap, object, item)} :
             /\ a.r
             /\ heap' = a.h
             /\ ghost' = [members |-> Append(ghost.members, item),
                          done |-> ghost.done \cup {"append"}]
    /\ TreeFrame

TreeAddItemToObject ==
    /\ Kind(heap.n[object].type) = STB_JSON_OBJECT
    /\ \E item \in Pool, key \in TreeKeys :
          \E a \in {stb_json_additemtoobject(heap, object, key, item)} :
             /\ a.r
             /\ heap' = a.h
             /\ ghost' = [members |-> Append(ghost.members, item),
                          done |-> ghost.done \cup {"append"}]
    /\ TreeFrame

TreeInsertItemInArray ==
    /\ \E item \in Pool, which \in 0..MaxWhich :
          \E a \in {stb_json_insertiteminarray(heap, object, which, item)} :
             /\ a.r
             /\ heap' = a.h
             /\ ghost' = [members |-> InsertAt(ghost.members,
                                               Min(which, Len(ghost.members)), item),
                          done |-> ghost.done \cup {"insert"}]
    /\ TreeFrame

TreeDetachItemViaPointer ==
    /\ \E item \in Range(ghost.members) :
          \E a \in {stb_json_detachitemviapointer(heap, object, item)} :
             /\ a.r = item
             /\ heap' = a.h
             /\ ghost' = [members |-> RemoveAt(ghost.members,
                                               IndexOf(ghost.members, item)),
                          done |-> ghost.done \cup {"detach"}]
    /\ TreeFrame

TreeReplaceItemViaPointer ==
    /\ \E item \in Range(ghost.members), replacement \in Pool :
          \E a \in {stb_json_replaceitemviapointer(heap, object, item, replacement)} :
             /\ a.r
             /\ heap' = a.h
             /\ ghost' = [members |-> [ghost.members EXCEPT
                                          ![IndexOf(ghost.members, item)] = replacement],
                          done |-> ghost.done \cup {"replace"}]
    /\ TreeFrame

TreeNext ==
    \/ TreeCreate
    \/ TreeAddItemToArray
    \/ TreeAddItemToObject
    \/ TreeInsertItemInArray
    \/ TreeDetachItemViaPointer
    \/ TreeReplaceItemViaPointer

SpecTree == TreeInit /\ [][TreeNext]_vars

\* C4: after any sequence of append, insert-at-index, detach-by-pointer and
\* replace-by-pointer with unlinked items, the next-chain from the head
\* visits exactly the children the calls left in the container, once each
\* and in the order the calls imply; the head's prev is the tail, the
\* tail's next is null, and every node outside the list (detached or never
\* added) has both links null.
C4_ListInvariant ==
    /\ Children(heap, object) = ghost.members
    /\ ListOk(heap, object)
    /\ \A p \in Pool : heap.n[p].next = NULL /\ heap.n[p].prev = NULL
    /\ ~heap.bad

\* All four kinds of edit have run and a list of two children stands next
\* to a detached node.
C4_Witness ==
    /\ ghost.done = {"append", "insert", "detach", "replace"}
    /\ Len(ghost.members) >= 2
    /\ Pool # {}

(***************************************************************************)
(* Trees as values: what a tree holds, read back from the heap, and the    *)
(* construction of a tree from such a value through the public API.        *)
(***************************************************************************)
Value(k, num, str, c) ==
    [k |-> k, num |-> num, str |-> str, key |-> NullStr, c |-> c]
Num(x) == Value(STB_JSON_NUMBER, DInt(x), NullStr, << >>)
Str(x) == Value(STB_JSON_STRING, DZero, x, << >>)
Nul == Value(STB_JSON_NULL, DZero, NullStr, << >>)
Arr(c) == Value(STB_JSON_ARRAY, DZero, NullStr, c)
Obj(c) == Value(STB_JSON_OBJECT, DZero, NullStr, c)
Keyed(key, v) == [v EXCEPT !.key = key]
Strip(v) == [v EXCEPT !.key = NullStr]

\* The value of the tree rooted at a node; the key of an array element is
\* not part of the value.
RECURSIVE Abs(_, _)
RECURSIVE AbsAll(_, _, _)
AbsAll(h, ch, keyed) ==
    IF ch = << >> THEN << >>
    ELSE <<IF keyed THEN Abs(h, Head(ch)) ELSE Strip(Abs(h, Head(ch)))>>
         \o AbsAll(h, Tail(ch), keyed)

Abs(h, id) ==
    LET nd == h.n[id]
    IN [k |-> Kind(nd.type), num |-> nd.valuedouble, str |-> nd.valuestring,
        key |-> nd.string,
        c |-> AbsAll(h, Children(h, id), Kind(nd.type) = STB_JSON_OBJECT)]

RECURSIVE Build(_, _)
RECURSIVE BuildChildren(_, _, _, _)
BuildChildren(h, parent, c, keyed) ==
    IF c = << >> THEN h
    ELSE Bind([b \in {Build(h, Head(c))} |->
         BuildChildren(
             IF keyed THEN stb_json_additemtoobject(b.h, parent, Head(c).key, b.r).h
             ELSE stb_json_additemtoarray(b.h, parent, b.r).h,
             parent, Tail(c), keyed)])

Build(h, v) ==
    Bind([a \in {IF v.k = STB_JSON_NUMBER THEN stb_json_createnumber(h, v.num)
         ELSE IF v.k = STB_JSON_STRING THEN stb_json_createstring(h, v.str)
         ELSE Create(h, v.k)} |->
    IF v.k \in {STB_JSON_ARRAY, STB_JSON_OBJECT}
    THEN [h |-> BuildChildren(a.h, a.r, v.c, v.k = STB_JSON_OBJECT), r |-> a.r]
    ELSE a])

\* Structural equality of two values: same kinds, same scalars, same element
\* sequence in every array, same key/value bindings in every object.
RECURSIVE Same(_, _)
Same(a, b) ==
    /\ a.k = b.k
    /\ a.k = STB_JSON_NUMBER => a.num = b.num
    /\ a.k \in {STB_JSON_STRING, STB_JSON_RAW} => a.str = b.str
    /\ a.k = STB_JSON_ARRAY =>
          /\ Len(a.c) = Len(b.c)
          /\ \A i \in 1..Len(a.c) : Same(a.c[i], b.c[i])
    /\ a.k = STB_JSON_OBJECT =>
          /\ Len(a.c) = Len(b.c)
          /\ \A i \in 1..Len(a.c) : \E j \in 1..Len(b.c) :
                a.c[i].key = b.c[j].key /\ Same(a.c[i], b.c[j])
          /\ \A j \in 1..Len(b.c) : \E i \in 1..Len(a.c) :
                a.c[i].key = b.c[j].key /\ Same(a.c[i], b.c[j])

\* All sequences over a set with at most n elements.
RECURSIVE SeqsUpTo(_, _)
SeqsUpTo(S, n) ==
    IF n = 0 THEN {<< >>}
    ELSE LET shorter == SeqsUpTo(S, n - 1)
         IN shorter \cup {Append(q, x) : q \in {t \in shorter : Len(t) = n - 1},
                                         x \in S}

(***************************************************************************)
(* JSON Patch: a document is either diffed against a target and the        *)
(* generated patch applied to it, or a given patch array is applied to it. *)
(* stb_json_utils_applypatches is followed one loop iteration at a time.   *)
(***************************************************************************)
MaxKids == 2
MaxOps == 2

Scalars == {Num(1), Num(2)}
Members == {Keyed(k, v) : k \in TreeKeys, v \in Scalars}
FlatArrays == {Arr(q) : q \in SeqsUpTo(Scalars, MaxKids)}
FlatObjects ==
    {Obj(q) : q \in {t \in SeqsUpTo(Members, MaxKids) :
                        \A i, j \in 1..Len(t) : i # j => t[i].key # t[j].key}}
DeepDocs ==
    { Obj(<<Keyed(<<"b">>, Num(1)), Keyed(<<"a">>, Num(2)), Keyed(<<"c">>, Num(3))>>),
      Obj(<<Keyed(<<"b">>, Arr(<<Num(1), Num(2)>>)), Keyed(<<"a">>, Num(1))>>),
      Obj(<<Keyed(<<"a">>, Obj(<<Keyed(<<"b">>, Num(1)), Keyed(<<"a">>, Num(2))>>))>>),
      Arr(<<Obj(<<Keyed(<<"b">>, Num(1)), Keyed(<<"a">>, Num(2))>>), Num(1)>>) }
Docs == Scalars \cup FlatArrays \cup FlatObjects \cup DeepDocs

Op3(op, path, value) ==
    Obj(<<Keyed(K_op, Str(op)), Keyed(K_path, Str(path)), Keyed(K_value, value)>>)
Op2(op, path) == Obj(<<Keyed(K_op, Str(op)), Keyed(K_path, Str(path))>>)

PatchOps ==
    { Op3(S_add, <<"/", "-">>, Num(9)),
      Op3(S_add, <<"/", "1">>, Num(9)),
      Op3(S_add, <<"/", "5">>, Num(9)),
      Op3(S_add, <<"/", "a", "/", "0">>, Num(9)),
      Op3(S_test, << >>, Obj(<<Keyed(<<"b">>, Num(2)), Keyed(<<"a">>, Num(1))>>)),
      Op3(S_test, <<"/", "0">>, Num(1)),
      Op2(S_remove, <<"/", "0">>),
      Op3(<<"n", "o", "p">>, << >>, Num(9)) }
LongPatches ==
    { Arr(<<Op3(S_add, <<"/", "-">>, Num(9)), Op2(S_remove, <<"/", "7">>),
            Op3(S_add, <<"/", "1">>, Num(9))>>),
      Arr(<<Op3(S_test, <<"/", "0">>, Num(1)), Op3(S_test, <<"/", "1">>, Num(1)),
            Op2(S_remove, <<"/", "0">>)>>) }
PatchDocs == {Arr(q) : q \in SeqsUpTo(PatchOps, MaxOps) \ {<< >>}} \cup LongPatches
ApplyDocs ==
    { Arr(<< >>), Arr(<<Num(1), Num(2)>>),
      Obj(<<Keyed(<<"a">>, Num(1)), Keyed(<<"b">>, Num(2))>>),
      Obj(<<Keyed(<<"b">>, Num(2)), Keyed(<<"a">>, Num(1))>>),
      Obj(<<Keyed(<<"b">>, Num(2)), Keyed(<<"a">>, Arr(<<Num(1), Num(2)>>))>>) }

NoError == [json |-> NullStr, position |-> 0]

PatchGhost(mode, b) ==
    [mode |-> mode, b |-> b, ops |-> << >>, results |-> << >>,
     before |-> Nul, pbefore |-> Nul, lastop |-> Nul, applied |-> FALSE]

PatchInit ==
    /\ \/ \E a \in Docs, b \in Docs :
             \E ba \in {Build(EmptyHeap, a)} : \E bb \in {Build(ba.h, b)} :
                /\ heap = bb.h /\ object = ba.r /\ other = bb.r
                /\ patches = NULL
                /\ pc = "generate"
                /\ ghost = PatchGhost("diff", b)
       \/ \E a \in ApplyDocs, p \in PatchDocs :
             \E ba \in {Build(EmptyHeap, a)} : \E bp \in {Build(ba.h, p)} :
                /\ heap = bp.h /\ object = ba.r /\ other = NULL
                /\ patches = bp.r
                /\ pc = "enter"
                /\ ghost = PatchGhost("apply", Nul)
    /\ current_patch = NULL /\ status = 0
    /\ global_error = NoError
    /\ input = << >>

\* stb_json_utils_generatepatches(object, other)
PatchGenerate ==
    /\ pc = "generate"
    /\ \E g \in {stb_json_utils_generatepatches(heap, object, other)} :
          heap' = g.h /\ patches' = g.r
    /\ pc' = "enter"
    /\ UNCHANGED <<object, other, current_patch, status, global_error, input,
                   ghost>>

\* stb_json_utils_applypatches, lines 2180-2182.
PatchEnter ==
    /\ pc = "enter"
    /\ IF ~stb_json_isarray(heap, patches)
       THEN /\ status' = 1 /\ pc' = "done"
            /\ UNCHANGED <<current_patch, ghost>>
       ELSE /\ current_patch' = heap.n[patches].child
            /\ status' = 0
            /\ pc' = "loop"
            /\ ghost' = [ghost EXCEPT !.ops = Children(heap, patches)]
    /\ UNCHANGED <<heap, object, other, patches, global_error, input>>

\* A slip that keeps going after an operation has failed.
applypatches_loop_ignoring_status(cp, st) == cp # NULL

\* The loop condition of stb_json_utils_applypatches.
applypatches_loop(cp, st) == cp # NULL /\ st = 0

\* One iteration: apply_patch(object, current_patch, false).
PatchApply ==
    /\ pc = "loop"
    /\ applypatches_loop(current_patch, status)
    /\ \E r \in {apply_patch(heap, object, current_patch, FALSE)} :
          /\ heap' = r.h
          /\ status' = r.r
          /\ current_patch' = r.h.n[current_patch].next
          /\ ghost' = [ghost EXCEPT
                          !.results = Append(@, [node |-> current_patch,
                                                 status |-> r.r]),
                          !.before = Strip(Abs(heap, object)),
                          !.pbefore = Abs(heap, patches),
                          !.lastop = Abs(heap, current_patch),
                          !.applied = TRUE]
    /\ UNCHANGED <<pc, object, other, patches, global_error, input>>

\* The loop ends and the status is returned.
PatchReturn ==
    /\ pc = "loop"
    /\ ~applypatches_loop(current_patch, status)
    /\ pc' = "done"
    /\ UNCHANGED <<heap, object, other, patches, current_patch, status,
                   global_error, input, ghost>>

PatchNext == PatchGenerate \/ PatchEnter \/ PatchApply \/ PatchReturn

SpecPatch == PatchInit /\ [][PatchNext]_vars

(***************************************************************************)
(* Properties of JSON Patch.                                               *)
(***************************************************************************)
\* The first member of an object value bound to a key, or Nul.
Member(v, key) ==
    IF \E i \in 1..Len(v.c) : v.c[i].key = key
    THEN Strip(v.c[CHOOSE i \in 1..Len(v.c) :
                      v.c[i].key = key /\ \A j \in 1..(i - 1) : v.c[j].key # key])
    ELSE Nul
HasMember(v, key) == \E i \in 1..Len(v.c) : v.c[i].key = key

\* The reference tokens of a path.
RECURSIVE Tokens(_)
Tokens(path) ==
    IF path = << >> \/ Head(path) # "/" THEN << >>
    ELSE LET rest == Tail(path)
             after == skip_token(rest)
         IN <<Take(rest, Len(rest) - Len(after))>> \o Tokens(after)

IsDecimal(tok) ==
    /\ tok # << >>
    /\ \A i \in 1..Len(tok) : IsDigit(tok[i])
    /\ Len(tok) > 1 => tok[1] # "0"
RECURSIVE DecimalValue(_)
DecimalValue(tok) ==
    IF tok = << >> THEN 0
    ELSE 10 * DecimalValue(Take(tok, Len(tok) - 1)) + (Ord(Last(tok)) - 48)

\* The position in v.c of the child a token selects, 0 when there is none.
ChildAt(v, tok) ==
    IF v.k = STB_JSON_ARRAY
    THEN IF IsDecimal(tok) /\ DecimalValue(tok) < Len(v.c)
         THEN DecimalValue(tok) + 1 ELSE 0
    ELSE IF v.k = STB_JSON_OBJECT /\ HasMember(v, tok)
    THEN CHOOSE i \in 1..Len(v.c) :
             v.c[i].key = tok /\ \A j \in 1..(i - 1) : v.c[j].key # tok
    ELSE 0

\* The tokens lead to an array, with '-' or a decimal index as last token.
RECURSIVE AddsIntoArray(_, _)
AddsIntoArray(v, toks) ==
    IF Len(toks) = 0 THEN FALSE
    ELSE IF Len(toks) = 1
    THEN v.k = STB_JSON_ARRAY /\ (toks[1] = <<"-">> \/ IsDecimal(toks[1]))
    ELSE /\ ChildAt(v, Head(toks)) # 0
         /\ AddsIntoArray(v.c[ChildAt(v, Head(toks))], Tail(toks))

\* What the claim expects of such an add.
RECURSIVE ExpectedAdd(_, _, _)
ExpectedAdd(v, toks, value) ==
    IF Len(toks) = 1
    THEN LET n == Len(v.c)
             at == IF toks[1] = <<"-">> THEN n
                   ELSE IF DecimalValue(toks[1]) >= n THEN n
                   ELSE DecimalValue(toks[1])
         IN [v EXCEPT !.c = InsertAt(v.c, at, value)]
    ELSE [v EXCEPT !.c[ChildAt(v, Head(toks))] =
              ExpectedAdd(v.c[ChildAt(v, Head(toks))], Tail(toks), value)]

LastOpIs(op) == ghost.applied /\ Member(ghost.lastop, K_op) = Str(op)
LastPath == Member(ghost.lastop, K_path).str
LastAddsIntoArray ==
    /\ LastOpIs(S_add)
    /\ HasMember(ghost.lastop, K_value)
    /\ AddsIntoArray(ghost.before, Tokens(LastPath))

\* C1: applying generatepatches(a, b) to a returns 0 and leaves a
\* structurally equal to b.
C1_DiffApplyRoundTrip ==
    (pc = "done" /\ ghost.mode = "diff") =>
        /\ status = 0
        /\ Same(Strip(Abs(heap, object)), ghost.b)

\* C8: applypatches applies the operations in array order, never applies an
\* operation after one that failed, and returns 0 exactly when every
\* operation of the array was applied with status 0; otherwise it returns the
\* non-zero status of the first failing operation.
C8_ApplyInOrderStopAtFirstFailure ==
    ghost.mode = "apply" =>
        LET r == ghost.results
            ops == ghost.ops
            all_ok == Len(r) = Len(ops) /\ \A i \in 1..Len(r) : r[i].status = 0
        IN /\ Len(r) <= Len(ops)
           /\ \A i \in 1..Len(r) : r[i].node = ops[i]
           /\ \A i \in 1..(Len(r) - 1) : r[i].status = 0
           /\ pc = "done" => (status = 0 <=> all_ok)
           /\ (pc = "done" /\ ~all_ok) =>
                  /\ r # << >>
                  /\ Last(r).status # 0
                  /\ status = Last(r).status

C8_Witness ==
    /\ ghost.mode = "apply"
    /\ pc = "done"
    /\ status # 0
    /\ Len(ghost.results) = 2
    /\ Len(ghost.ops) = 3

\* C9: a 'test' operation returns 0 exactly when the value at its path is
\* structurally equal to its value, and changes neither the document nor the
\* patch array, the stored order of object members included.
C9_TestIsPure ==
    (LastOpIs(S_test) /\ HasMember(ghost.lastop, K_value)) =>
        /\ Strip(Abs(heap, object)) = ghost.before
        /\ Abs(heap, patches) = ghost.pbefore

\* C10: an 'add' whose parent is an array of length n returns 0 and puts the
\* value last for '-' or an index >= n, and at position i for an index i < n
\* with the former elements i..n-1 moved one place right; nothing else in the
\* document changes.
C10_AddIntoArray ==
    LastAddsIntoArray =>
        /\ Last(ghost.results).status = 0
        /\ Strip(Abs(heap, object))
              = ExpectedAdd(ghost.before, Tokens(LastPath),
                            Member(ghost.lastop, K_value))

C10_Witness ==
    /\ LastAddsIntoArray
    /\ Tokens(LastPath) = <<<<"a">>, <<"0">>>>
    /\ Len(ghost.results) = 2
    /\ ghost.results[1].status = 0

(***************************************************************************)
(* JSON Merge Patch: a merge patch is generated from a document and a      *)
(* target, and, when there is one, merged into the document.               *)
(***************************************************************************)
MergeInit ==
    /\ \E a \in Docs, b \in Docs :
          \E ba \in {Build(EmptyHeap, a)} : \E bb \in {Build(ba.h, b)} :
             /\ heap = bb.h /\ object = ba.r /\ other = bb.r
             /\ ghost = PatchGhost("merge", b)
    /\ pc = "generate"
    /\ patches = NULL /\ current_patch = NULL /\ status = 0
    /\ global_error = NoError
    /\ input = << >>

\* patches = stb_json_utils_generatemergepatch(object, other)
MergeGenerate ==
    /\ pc = "generate"
    /\ \E g \in {stb_json_utils_generatemergepatch(heap, object, other)} :
          /\ heap' = g.h
          /\ patches' = g.r
          /\ pc' = IF g.r = NULL THEN "none" ELSE "merge"
    /\ UNCHANGED <<object, other, current_patch, status, global_error, input,
                   ghost>>

\* object = stb_json_utils_mergepatch(object, patches)
MergeApply ==
    /\ pc = "merge"
    /\ \E m \in {stb_json_utils_mergepatch(heap, object, patches)} :
          /\ heap' = m.h
          /\ object' = m.r
    /\ pc' = "done"
    /\ UNCHANGED <<other, patches, current_patch, status, global_error, input,
                   ghost>>

MergeNext == MergeGenerate \/ MergeApply

SpecMerge == MergeInit /\ [][MergeNext]_vars

\* C2: when generatemergepatch(a, b) returns a patch p, mergepatch(a, p)
\* returns a tree structurally equal to b, whatever the order of the keys.
C2_MergeRoundTrip ==
    (pc = "done" /\ ghost.mode = "merge") =>
        /\ object # NULL
        /\ Same(Strip(Abs(heap, object)), ghost.b)


(***************************************************************************)
(* Applying a merge patch: a given patch is merged into a given target     *)
(* by one of the two public entry points.                                  *)
(***************************************************************************)
MergeTargets ==
    { Num(1), Arr(<<Num(1)>>), Obj(<< >>),
      Obj(<<Keyed(<<"a">>, Num(1))>>),
      Obj(<<Keyed(<<"a">>, Num(1)), Keyed(<<"b">>, Num(2))>>),
      Obj(<<Keyed(<<"A">>, Num(1)), Keyed(<<"a">>, Num(2))>>),
      Obj(<<Keyed(<<"a">>, Obj(<<Keyed(<<"b">>, Num(1)), Keyed(<<"c">>, Num(2))>>)),
            Keyed(<<"b">>, Num(2))>>),
      Obj(<<Keyed(<<"a">>, Arr(<<Num(1)>>))>>) }

MergePatchDocs ==
    { Nul, Num(2), Arr(<<Nul>>), Obj(<< >>),
      Obj(<<Keyed(<<"a">>, Nul)>>),
      Obj(<<Keyed(<<"a">>, Num(2))>>),
      Obj(<<Keyed(<<"A">>, Nul)>>),
      Obj(<<Keyed(<<"c">>, Num(3)), Keyed(<<"a">>, Nul)>>),
      Obj(<<Keyed(<<"a">>, Obj(<<Keyed(<<"b">>, Nul), Keyed(<<"d">>, Num(4))>>))>>),
      Obj(<<Keyed(<<"a">>, Obj(<< >>))>>),
      Obj(<<Keyed(<<"b">>, Obj(<<Keyed(<<"x">>, Nul)>>))>>),
      Obj(<<Keyed(<<"a">>, Arr(<<Nul>>))>>) }

MergeGhost(t, p) ==
    [mode |-> "mergepatch", t |-> t, p |-> p, b |-> Nul, ops |-> << >>,
     results |-> << >>, before |-> Nul, pbefore |-> Nul, lastop |-> Nul,
     applied |-> FALSE]

ApplyMergeInit ==
    /\ \E t \in MergeTargets, p \in MergePatchDocs :
          \E bt \in {Build(EmptyHeap, t)} : \E bp \in {Build(bt.h, p)} :
             /\ heap = bp.h /\ object = bt.r /\ patches = bp.r
             /\ ghost = MergeGhost(t, p)
    /\ \E case_sensitive \in BOOLEAN : input = [case_sensitive |-> case_sensitive]
    /\ pc = "merge"
    /\ other = NULL /\ current_patch = NULL /\ status = 0
    /\ global_error = NoError

\* object = stb_json_utils_mergepatch[casesensitive](object, patches)
ApplyMergeCall ==
    /\ pc = "merge"
    /\ \E m \in {IF input.case_sensitive
                 THEN stb_json_utils_mergepatchcasesensitive(heap, object, patches)
                 ELSE stb_json_utils_mergepatch(heap, object, patches)} :
          /\ heap' = m.h
          /\ object' = m.r
    /\ pc' = "done"
    /\ UNCHANGED <<other, patches, current_patch, status, global_error, input,
                   ghost>>

ApplyMergeNext == ApplyMergeCall

SpecApplyMerge == ApplyMergeInit /\ [][ApplyMergeNext]_vars

\* The members of an object value that a patch object does not name.
RECURSIVE NotNamed(_, _)
NotNamed(c, p) ==
    IF c = << >> THEN << >>
    ELSE (IF HasMember(p, Head(c).key) THEN << >> ELSE <<Head(c)>>)
         \o NotNamed(Tail(c), p)

\* The merge of RFC 7386 on values: MergePatch(Target, Patch).
RECURSIVE MergePatch(_, _)
RECURSIVE MergePatchNamed(_, _)
MergePatchNamed(t, c) ==
    IF c = << >> THEN << >>
    ELSE (IF Head(c).k = STB_JSON_NULL THEN << >>
          ELSE <<Keyed(Head(c).key, MergePatch(Member(t, Head(c).key), Strip(Head(c))))>>)
         \o MergePatchNamed(t, Tail(c))

MergePatch(t, p) ==
    IF p.k # STB_JSON_OBJECT THEN p
    ELSE LET target == IF t.k = STB_JSON_OBJECT THEN t ELSE Obj(<< >>)
         IN Obj(NotNamed(target.c, p) \o MergePatchNamed(target, p.c))

MergeDone == pc = "done" /\ ghost.mode = "mergepatch"

\* C11: stb_json_utils_mergepatchcasesensitive(t, p) returns a tree equal, up
\* to the order of object keys, to the RFC 7386 result: p when p is not an
\* object, otherwise t coerced to an object, without the keys whose patch
\* value is null, with every other patch key bound to the merge of its old
\* value (or nothing) with the patch value, and with its other keys unchanged.
C11_MergePatchIsRfc7386 ==
    (MergeDone /\ input.case_sensitive) =>
        /\ object # NULL
        /\ Same(Strip(Abs(heap, object)), MergePatch(ghost.t, ghost.p))

\* A nested merge that deletes one key, adds one and keeps two.
C11_Witness ==
    /\ MergeDone /\ input.case_sensitive
    /\ ghost.p = Obj(<<Keyed(<<"a">>, Obj(<<Keyed(<<"b">>, Nul), Keyed(<<"d">>, Num(4))>>))>>)
    /\ Len(ghost.t.c) = 2
    /\ ghost.t.c[1].k = STB_JSON_OBJECT

\* C12 as stated: merging an empty object into any tree v, of any kind,
\* returns a tree structurally equal to v.
C12_EmptyPatchKeepsAnyTree ==
    (MergeDone /\ ghost.p = Obj(<< >>)) =>
        /\ object # NULL
        /\ Same(Strip(Abs(heap, object)), ghost.t)

\* C12 amended: merging an empty object into an object v returns a tree
\* structurally equal to v; a v of any other kind becomes the empty object.
C12_EmptyPatchKeepsObject ==
    (MergeDone /\ ghost.p = Obj(<< >>)) =>
        /\ object # NULL
        /\ Same(Strip(Abs(heap, object)),
                IF ghost.t.k = STB_JSON_OBJECT THEN ghost.t ELSE Obj(<< >>))

C12_Witness ==
    /\ MergeDone /\ ghost.p = Obj(<< >>)
    /\ ghost.t.k = STB_JSON_OBJECT
    /\ Len(ghost.t.c) = 2
    /\ ~input.case_sensitive


(***************************************************************************)
(* The serializer.  A printbuffer is a record whose hooks are the          *)
(* allocator, that is the heap h it carries.  buffer holds the bytes       *)
(* written so far from index 0 (NullStr when the pointer is null); "?" is  *)
(* a byte of the block that was never written.                             *)
(***************************************************************************)
default_buffer_size == 256

printbuffer(h, buffer, length, noalloc, format) ==
    [h |-> h, buffer |-> buffer, length |-> length, offset |-> 0, depth |-> 0,
     noalloc |-> noalloc, format |-> format]

Repeat(c, n) == IF n > 0 THEN [i \in 1..n |-> c] ELSE << >>

\* memcpy(block + pos, bytes, Len(bytes))
Poke(block, pos, bytes) ==
    Take(block, pos) \o Repeat("?", pos - Len(block)) \o bytes
        \o Drop(block, pos + Len(bytes))

\* Writing through the pointer ensure returned, buffer + offset.
Write(p, bytes) == [p EXCEPT !.buffer = Poke(@, p.offset, bytes)]

\* strlen(block + pos); Terminated tells whether the terminating NUL is
\* found before a byte that was never written.
strlen(block, pos) ==
    LET ends == {i \in (pos + 1)..Len(block) : block[i] = NUL}
    IN IF pos >= Len(block) THEN 0
       ELSE IF ends = {} THEN Len(block) - pos
       ELSE (CHOOSE i \in ends : \A j \in ends : i <= j) - pos - 1

Terminated(block, pos) ==
    LET n == strlen(block, pos)
    IN /\ pos + n < Len(block)
       /\ \A i \in (pos + 1)..(pos + n) : block[i] # "?"

\* a + b > c for sizes up to INT_MAX each, whose sum a size_t holds.
Above(a, b, c) == a > c - b

ensure(p, needed) ==
    IF p.buffer = NullStr \/ p.offset >= p.length THEN [p |-> p, r |-> FALSE]
    ELSE IF needed > INT_MAX THEN [p |-> p, r |-> FALSE]
    ELSE IF ~Above(needed, p.offset + 1, p.length) THEN [p |-> p, r |-> TRUE]
    ELSE IF p.noalloc THEN [p |-> p, r |-> FALSE]
    ELSE IF p.h.hooks.reallocate = "NULL"
    THEN [p |-> [p EXCEPT !.h.nullcall = TRUE], r |-> FALSE]
    ELSE IF ~Grant(p.h)
    THEN [p |-> [p EXCEPT !.h = free_string(@), !.length = 0, !.buffer = NullStr],
          r |-> FALSE]
    ELSE [p |-> [p EXCEPT !.h = Spend(@),
                          !.length = IF Above(needed, p.offset + 1, INT_MAX \div 2)
                                     THEN INT_MAX
                                     ELSE (needed + p.offset + 1) * 2],
          r |-> TRUE]

\* A read of bytes never written is recorded in the heap's bad flag.
update_offset(p) ==
    IF p.buffer = NullStr THEN p
    ELSE [p EXCEPT !.offset = @ + strlen(p.buffer, p.offset),
                   !.h.bad = @ \/ ~Terminated(p.buffer, p.offset)]

\* sprintf("%d", valueint)
FormatD(n) ==
    IF n >= 0 THEN Dec(n)
    ELSE IF n = INT_MIN THEN <<"-">> \o Dec(INT_MAX \div 10) \o <<"8">>
    ELSE <<"-">> \o Dec(-n)

\* The digits of s from position p on: how many there are.
RECURSIVE strtod_digits(_, _)
strtod_digits(s, p) == IF IsDigit(At(s, p)) THEN 1 + strtod_digits(s, p + 1) ELSE 0

\* Where the parts of a number text lie: first the position of the first
\* integer digit, ni and nf the lengths of the integer and the fraction
\* digits, pf the position of the first fraction digit, px and nx the
\* position and the length of the exponent digits, end the bytes consumed.
strtod_exponent_at(s, first, ni, pf, nf, pe) ==
    [first |-> first, ni |-> ni, pf |-> pf, nf |-> nf,
     negative |-> At(s, 1) = "-",
     exp_negative |-> At(s, pe) \in {"e", "E"} /\ At(s, pe + 1) = "-",
     px |-> IF At(s, pe) \in {"e", "E"}
            THEN (IF At(s, pe + 1) \in {"-", "+"} THEN pe + 2 ELSE pe + 1)
            ELSE pe,
     nx |-> IF At(s, pe) \in {"e", "E"}
            THEN strtod_digits(s, IF At(s, pe + 1) \in {"-", "+"} THEN pe + 2 ELSE pe + 1)
            ELSE 0]

strtod_fraction_at(s, first, ni) ==
    IF At(s, first + ni) = "."
    THEN strtod_exponent_at(s, first, ni, first + ni + 1,
                            strtod_digits(s, first + ni + 1),
                            first + ni + 1 + strtod_digits(s, first + ni + 1))
    ELSE strtod_exponent_at(s, first, ni, first + ni, 0, first + ni)

strtod_scan(s) ==
    strtod_fraction_at(s, IF At(s, 1) \in {"-", "+"} THEN 2 ELSE 1,
                       strtod_digits(s, IF At(s, 1) \in {"-", "+"} THEN 2 ELSE 1))

\* exponent = exponent * 10 + digit over the n digits at p.
RECURSIVE strtod_exponent(_, _, _)
strtod_exponent(s, p, n) ==
    IF n = 0 THEN 0
    ELSE 10 * strtod_exponent(s, p, n - 1) + (Ord(s[p + n - 1]) - 48)

\* The natural number the n digits at p denote.
RECURSIVE BigOfDigitsFrom(_, _)
BigOfDigitsFrom(s, at) ==
    IF at.n = 0 THEN at.value
    ELSE BigOfDigitsFrom(s, [p |-> at.p + 1, n |-> at.n - 1,
                             value |-> BigMulSmall(at.value, 10, Ord(s[at.p]) - 48)])

BigOfDigits(s, p, n) == BigOfDigitsFrom(s, [p |-> p, n |-> n, value |-> << >>])

sscanf_lg_of(s, sc) ==
    DDecimal(sc.negative,
             BigAdd(BigMul(BigOfDigits(s, sc.first, sc.ni), BigPow(10, sc.nf)),
                    BigOfDigits(s, sc.pf, sc.nf)),
             (IF sc.exp_negative THEN -strtod_exponent(s, sc.px, sc.nx)
              ELSE strtod_exponent(s, sc.px, sc.nx)) - sc.nf)

\* sscanf(s, "%lg", &test) on a text printf wrote: the double nearest to
\* the decimal the text denotes.
sscanf_lg(s) == Bind([sc \in {strtod_scan(s)} |-> sscanf_lg_of(s, sc)])

\* x * 10^s as the fraction num / den.
DScaled(x, s) ==
    [num |-> BigMul(BigShl(x.m, IF x.e > 0 THEN x.e ELSE 0),
                    BigPow(10, IF s > 0 THEN s ELSE 0)),
     den |-> BigShl(BigPow(10, IF s < 0 THEN -s ELSE 0), IF x.e < 0 THEN -x.e ELSE 0)]

DAtLeast(sc) == BigCmp(sc.num, sc.den) >= 0

\* The decimal exponent of |x|: the X with 10^X <= |x| < 10^(X+1), found
\* next to the estimate the number of bits gives.
DExponentNear(x, estimate) ==
    IF DAtLeast(DScaled(x, -(estimate + 1))) THEN estimate + 1
    ELSE IF DAtLeast(DScaled(x, -estimate)) THEN estimate
    ELSE estimate - 1

DExponent(x) == DExponentNear(x, ((BigBits(x.m) + x.e - 1) * 30103) \div 100000)

\* num / den rounded to an integer: to nearest, a tie to the even one.
BigRounded(dm, den) ==
    IF \/ BigCmp(BigMulSmall(dm.r, 2, 0), den) > 0
       \/ BigMulSmall(dm.r, 2, 0) = den /\ BigLimb(dm.q, 1) % 2 = 1
    THEN BigAdd(dm.q, <<1>>) ELSE dm.q

BigNearest(sc) ==
    IF sc.num = << >> THEN << >>
    ELSE Bind([dm \in {BigDivMod(sc.num, sc.den)} |-> BigRounded(dm, sc.den)])

\* |x| rounded to precision significant decimal digits: the digits, most
\* significant first, and the power of ten e of the last one.
DDigitsAt(x, s) == [e |-> -s, digits |-> BigDigits(BigNearest(DScaled(x, s)))]
DDigits(x, precision) == DDigitsAt(x, precision - 1 - DExponent(x))

\* The zeros at the end of the digits removed.
DigitsKeep(dec, last) ==
    [digits |-> SubSeq(dec.digits, 1, last), e |-> dec.e + Len(dec.digits) - last]
DigitsStrip(dec) ==
    DigitsKeep(dec, CHOOSE i \in 1..Len(dec.digits) :
                        /\ dec.digits[i] # 0
                        /\ \A j \in (i + 1)..Len(dec.digits) : dec.digits[j] = 0)

\* The text of "%g" for the significant digits D whose last one has the
\* power of ten e: fixed notation when the decimal exponent X of the first
\* digit satisfies -4 <= X < precision, scientific notation otherwise, the
\* zeros at the end removed.
FormatDigits(D, e, X, precision) ==
    IF X >= -4 /\ X < precision
    THEN IF e >= 0 THEN D \o Repeat("0", e)
         ELSE IF Len(D) > -e THEN Take(D, Len(D) + e) \o <<".">> \o Drop(D, Len(D) + e)
         ELSE <<"0", ".">> \o Repeat("0", -e - Len(D)) \o D
    ELSE <<D[1]>> \o (IF Len(D) > 1 THEN <<".">> \o Tail(D) ELSE << >>)
         \o <<"e", IF X < 0 THEN "-" ELSE "+">>
         \o (IF X > -10 /\ X < 10 THEN <<"0">> ELSE << >>)
         \o Dec(IF X < 0 THEN -X ELSE X)

FormatDecimal(neg, dec, precision) ==
    (IF neg THEN <<"-">> ELSE << >>)
    \o FormatDigits([i \in 1..Len(dec.digits) |-> Chr(48 + dec.digits[i])], dec.e,
                    Len(dec.digits) + dec.e - 1, precision)

\* sprintf("%1.15g", d) and sprintf("%1.17g", d)
FormatG(d, precision) ==
    IF d.m = << >> THEN <<"0">>
    ELSE Bind([dec \in {DDigits(d, precision)} |->
         FormatDecimal(d.neg, DigitsStrip(dec), precision)])

\* The text print_number puts into number_buffer; the doubles of the model
\* are finite.
print_number_g(d, short) ==
    Bind([test \in {sscanf_lg(short)} |->
    IF compare_double(test, d) THEN short ELSE FormatG(d, 17)])

number_buffer(nd) ==
    IF nd.valuedouble = DInt(nd.valueint) THEN FormatD(nd.valueint)
    ELSE Bind([short \in {FormatG(nd.valuedouble, 15)} |->
         print_number_g(nd.valuedouble, short)])

print_number_write(p, text) ==
    IF Len(text) > 25 THEN [p |-> p, r |-> FALSE]
    ELSE Bind([e \in {ensure(p, Len(text))} |->
         IF ~e.r THEN e
         ELSE [p |-> [Write(e.p, text \o <<NUL>>) EXCEPT !.offset = @ + Len(text)],
               r |-> TRUE]])

print_number(p, item) == print_number_write(p, number_buffer(p.h.n[item]))

\* The first pass of print_string_ptr: what one byte adds to
\* escape_characters.
escape_characters(c) ==
    IF Ord(c) >= 128 THEN 0
    ELSE IF c \in {"\"", "\\", "\n", "\r", "\t", "\f"} \/ Ord(c) = 8 THEN 1
    ELSE IF Ord(c) < 32 THEN 5
    ELSE 0

RECURSIVE count_escape_characters(_)
count_escape_characters(s) ==
    IF s = << >> THEN 0
    ELSE IF Len(s) = 1 THEN escape_characters(s[1])
    ELSE count_escape_characters(SubSeq(s, 1, Len(s) \div 2))
         + count_escape_characters(SubSeq(s, Len(s) \div 2 + 1, Len(s)))

\* A second pass that copies every byte as it is.
escape_byte_unescaped(c) == <<c>>

\* The second pass: the bytes written for one byte of the string.
escape_byte(c) ==
    IF Ord(c) > 31 /\ c # "\"" /\ c # "\\" THEN <<c>>
    ELSE CASE c = "\\" -> <<"\\", "\\">>
           [] c = "\"" -> <<"\\", "\"">>
           [] Ord(c) = 8 -> <<"\\", "b">>
           [] c = "\f" -> <<"\\", "f">>
           [] c = "\n" -> <<"\\", "n">>
           [] c = "\r" -> <<"\\", "r">>
           [] c = "\t" -> <<"\\", "t">>
           [] OTHER -> <<"\\", "u", "0", "0", HexDigits[(Ord(c) \div 16) + 1],
                         HexDigits[(Ord(c) % 16) + 1]>>

RECURSIVE escape_bytes(_)
escape_bytes(s) ==
    IF s = << >> THEN << >>
    ELSE IF Len(s) = 1 THEN escape_byte(s[1])
    ELSE escape_bytes(SubSeq(s, 1, Len(s) \div 2))
         \o escape_bytes(SubSeq(s, Len(s) \div 2 + 1, Len(s)))

print_string_ptr(p, string) ==
    IF string = NullStr
    THEN Bind([e \in {ensure(p, 3)} |->
         IF ~e.r THEN e ELSE [p |-> Write(e.p, <<"\"", "\"", NUL>>), r |-> TRUE]])
    ELSE LET output_length == Len(string) + count_escape_characters(string)
         IN Bind([e \in {ensure(p, output_length + 3)} |->
            IF ~e.r THEN e
            ELSE [p |-> Write(e.p, Poke(<<"\"">> \o (IF output_length = Len(string)
                                                    THEN string
                                                    ELSE escape_bytes(string)),
                                        output_length + 1, <<"\"", NUL>>)),
                  r |-> TRUE]])

print_string(p, item) == print_string_ptr(p, p.h.n[item].valuestring)

\* ensure followed by strcpy / memcpy of a NUL-terminated text
print_literal(p, needed, bytes) ==
    Bind([e \in {ensure(p, needed)} |->
    IF ~e.r THEN e ELSE [p |-> Write(e.p, bytes \o <<NUL>>), r |-> TRUE]])

RECURSIVE print_value(_, _)
RECURSIVE print_array_elements(_, _)
RECURSIVE print_object_members(_, _)

\* The while loop of print_array and what follows it.
print_array_elements(p, current_element) ==
    IF current_element = NULL
    THEN Bind([e \in {ensure(p, 2)} |->
         IF ~e.r THEN e
         ELSE [p |-> [Write(e.p, <<"]", NUL>>) EXCEPT !.depth = @ - 1], r |-> TRUE]])
    ELSE Bind([v \in {print_value(p, current_element)} |->
         IF ~v.r THEN v
         ELSE Bind([q \in {update_offset(v.p)} |->
              IF q.h.n[current_element].next = NULL
              THEN print_array_elements(q, NULL)
              ELSE Bind([e \in {ensure(q, (IF q.format THEN 2 ELSE 1) + 1)} |->
                   IF ~e.r THEN e
                   ELSE print_array_elements(
                            [Write(e.p, IF q.format THEN <<",", " ", NUL>>
                                        ELSE <<",", NUL>>)
                                EXCEPT !.offset = @ + (IF q.format THEN 2 ELSE 1)],
                            q.h.n[current_element].next)])])])

print_array(p, item) ==
    Bind([e \in {ensure(p, 1)} |->
    IF ~e.r THEN e
    ELSE print_array_elements(
             [Write(e.p, <<"[">>) EXCEPT !.offset = @ + 1, !.depth = @ + 1],
             p.h.n[item].child)])

\* One member of print_object: the indentation and the key ...
print_object_key(p, current_item) ==
    Bind([t \in {IF p.format THEN ensure(p, p.depth) ELSE [p |-> p, r |-> TRUE]} |->
    IF ~t.r THEN t
    ELSE Bind([k \in {print_string_ptr(
                          IF p.format
                          THEN [Write(t.p, Repeat("\t", p.depth))
                                   EXCEPT !.offset = @ + p.depth]
                          ELSE t.p,
                          p.h.n[current_item].string)} |->
         IF ~k.r THEN k
         ELSE Bind([q \in {update_offset(k.p)} |->
              Bind([e \in {ensure(q, IF q.format THEN 2 ELSE 1)} |->
              IF ~e.r THEN e
              ELSE [p |-> [Write(e.p, IF q.format THEN <<":", "\t">> ELSE <<":">>)
                              EXCEPT !.offset = @ + (IF q.format THEN 2 ELSE 1)],
                    r |-> TRUE]])])])])

\* ... and the separator after its value.
print_object_separator(p, current_item) ==
    LET more == p.h.n[current_item].next # NULL
        length == (IF more THEN 1 ELSE 0) + (IF p.format THEN 1 ELSE 0)
    IN Bind([e \in {ensure(p, length + 1)} |->
       IF ~e.r THEN e
       ELSE [p |-> [Write(e.p, (IF more THEN <<",">> ELSE << >>)
                               \o (IF p.format THEN <<"\n">> ELSE << >>) \o <<NUL>>)
                       EXCEPT !.offset = @ + length],
             r |-> TRUE]])

\* The while loop of print_object and what follows it.
print_object_members(p, current_item) ==
    IF current_item = NULL
    THEN Bind([e \in {ensure(p, IF p.format THEN p.depth + 1 ELSE 2)} |->
         IF ~e.r THEN e
         ELSE [p |-> [Write(e.p, (IF p.format THEN Repeat("\t", p.depth - 1)
                                  ELSE << >>) \o <<"}", NUL>>)
                         EXCEPT !.depth = @ - 1],
               r |-> TRUE]])
    ELSE Bind([k \in {print_object_key(p, current_item)} |->
         IF ~k.r THEN k
         ELSE Bind([v \in {print_value(k.p, current_item)} |->
              IF ~v.r THEN v
              ELSE Bind([s \in {print_object_separator(update_offset(v.p),
                                                       current_item)} |->
                   IF ~s.r THEN s
                   ELSE print_object_members(s.p, s.p.h.n[current_item].next)])])])

print_object(p, item) ==
    Bind([e \in {ensure(p, (IF p.format THEN 2 ELSE 1) + 1)} |->
    IF ~e.r THEN e
    ELSE print_object_members(
             [Write(e.p, IF p.format THEN <<"{", "\n">> ELSE <<"{">>)
                 EXCEPT !.offset = @ + (IF p.format THEN 2 ELSE 1),
                        !.depth = @ + 1],
             p.h.n[item].child)])

print_value(p, item) ==
    IF item = NULL THEN [p |-> p, r |-> FALSE]
    ELSE LET nd == p.h.n[item]
         IN CASE Kind(nd.type) = STB_JSON_NULL ->
                     print_literal(p, 5, <<"n", "u", "l", "l">>)
              [] Kind(nd.type) = STB_JSON_FALSE ->
                     print_literal(p, 6, <<"f", "a", "l", "s", "e">>)
              [] Kind(nd.type) = STB_JSON_TRUE ->
                     print_literal(p, 5, <<"t", "r", "u", "e">>)
              [] Kind(nd.type) = STB_JSON_NUMBER -> print_number(p, item)
              [] Kind(nd.type) = STB_JSON_RAW ->
                     IF nd.valuestring = NullStr THEN [p |-> p, r |-> FALSE]
                     ELSE print_literal(p, Len(nd.valuestring) + 1, nd.valuestring)
              [] Kind(nd.type) = STB_JSON_STRING -> print_string(p, item)
              [] Kind(nd.type) = STB_JSON_ARRAY -> print_array(p, item)
              [] Kind(nd.type) = STB_JSON_OBJECT -> print_object(p, item)
              [] OTHER -> [p |-> p, r |-> FALSE]

\* The block print returns is the buffer cut to offset + 1 bytes by
\* reallocate; a null result of reallocate is returned as it is.
print(h, item, format) ==
    IF ~Grant(h) THEN [h |-> h, r |-> NullStr]
    ELSE Bind([v \in {print_value(printbuffer([Spend(h) EXCEPT !.nstr = @ + 1],
                                              << >>, default_buffer_size, FALSE,
                                              format), item)} |->
         IF ~v.r
         THEN [h |-> free_if(v.p.h, v.p.buffer # NullStr), r |-> NullStr]
         ELSE Bind([q \in {update_offset(v.p)} |->
              IF q.h.hooks.reallocate = "NULL"
              THEN [h |-> [q.h EXCEPT !.nullcall = TRUE], r |-> NullStr]
              ELSE IF ~Grant(q.h) THEN [h |-> q.h, r |-> NullStr]
              ELSE [h |-> Spend(q.h), r |-> Take(q.buffer, q.offset)]])])

stb_json_print(h, item) == print(h, item, TRUE)

stb_json_print_unformatted(h, item) == print(h, item, FALSE)

\* The block is returned as it stands: the text is what it holds up to the
\* first NUL.
stb_json_printbuffered(h, item, prebuffer, fmt) ==
    IF prebuffer < 0 \/ ~Grant(h) THEN [h |-> h, r |-> NullStr]
    ELSE Bind([v \in {print_value(printbuffer([Spend(h) EXCEPT !.nstr = @ + 1],
                                              << >>, prebuffer, FALSE, fmt),
                                  item)} |->
         IF ~v.r
         THEN [h |-> free_if(v.p.h, v.p.buffer # NullStr), r |-> NullStr]
         ELSE [h |-> v.p.h, r |-> Take(v.p.buffer, strlen(v.p.buffer, 0))]])

\* The caller's block is buffer; r is the returned flag and buffer the block
\* as the call leaves it.
stb_json_printpreallocated(h, item, buffer, length, format) ==
    IF length < 0 \/ buffer = NullStr THEN [h |-> h, r |-> FALSE, buffer |-> buffer]
    ELSE Bind([v \in {print_value(printbuffer(h, buffer, length, TRUE, format), item)} |->
         [h |-> v.p.h, r |-> v.r, buffer |-> v.p.buffer]])

(***************************************************************************)
(* The parser.  A parse_buffer is a record; content is the C string the    *)
(* caller passed (its terminating NUL follows its last byte) and its hooks *)
(* are the heap h that every parsing function takes and returns.           *)
(***************************************************************************)
STB_JSON_NESTING_LIMIT == 2

parse_buffer(content, length) ==
    [content |-> content, length |-> length, offset |-> 0, depth |-> 0]

\* a < b for two size_t: a negative number stands for the size_t that many
\* below 2^64, which is what a decrement of 0 leaves in offset.
size_less(a, b) == IF (a < 0) = (b < 0) THEN a < b ELSE b < 0

can_read(b, size) == ~size_less(b.length, b.offset + size)
can_access_at_index(b, index) == size_less(b.offset + index, b.length)
cannot_access_at_index(b, index) == ~can_access_at_index(b, index)
\* buffer_at_offset(buffer)[index]
buffer_at_offset(b, index) == At(b.content, b.offset + index + 1)

\* The size bytes at the offset, as strncmp and memcpy read them.
Peek(b, size) == [i \in 1..size |-> buffer_at_offset(b, i - 1)]

Advance(b, k) == [b EXCEPT !.offset = @ + k]

RECURSIVE skip_whitespace_loop(_)
skip_whitespace_loop(b) ==
    IF can_access_at_index(b, 0) /\ Ord(buffer_at_offset(b, 0)) <= 32
    THEN skip_whitespace_loop(Advance(b, 1))
    ELSE b

buffer_skip_whitespace(b) ==
    Bind([c \in {skip_whitespace_loop(b)} |->
    IF c.offset = c.length THEN Advance(c, -1) ELSE c])

skip_utf8_bom(b) ==
    IF can_access_at_index(b, 4) /\ Peek(b, 3) = <<Chr(239), Chr(187), Chr(191)>>
    THEN Advance(b, 3)
    ELSE b

\* value = value * 10.0 + digit over the n digits at p.
\* at is the loop's state: the position p, the number n of digits left and
\* the value so far.
RECURSIVE strtod_accumulate_from(_, _)
strtod_accumulate_from(s, at) ==
    IF at.n = 0 THEN at.value
    ELSE strtod_accumulate_from(s,
             [p |-> at.p + 1, n |-> at.n - 1,
              value |-> DAdd(DMul(at.value, DInt(10)), DInt(Ord(s[at.p]) - 48))])

strtod_accumulate(s, p, n) == strtod_accumulate_from(s, [p |-> p, n |-> n, value |-> DZero])

\* frac_divisor *= 10.0, once for every digit of the fraction.
RECURSIVE strtod_divisor_from(_)
strtod_divisor_from(at) ==
    IF at.n = 0 THEN at.frac_divisor
    ELSE strtod_divisor_from([n |-> at.n - 1,
                              frac_divisor |-> DMul(at.frac_divisor, DInt(10))])

strtod_divisor(n) == strtod_divisor_from([n |-> n, frac_divisor |-> DInt(1)])

strtod_scale(value, exponent) ==
    IF exponent = 0 THEN value ELSE DMul(value, pow10(exponent))

\* r is the double, end the number of bytes consumed (endptr - nptr).
stb_json_strtod(s) ==
    Bind([sc \in {strtod_scan(s)} |->
    Bind([value \in {strtod_scale(
                        DAdd(strtod_accumulate(s, sc.first, sc.ni),
                             DDiv(strtod_accumulate(s, sc.pf, sc.nf),
                                  strtod_divisor(sc.nf))),
                        IF sc.exp_negative THEN -strtod_exponent(s, sc.px, sc.nx)
                        ELSE strtod_exponent(s, sc.px, sc.nx))} |->
    [r |-> IF sc.negative THEN DNeg(value) ELSE value,
     end |-> sc.px + sc.nx - 1]])])

RECURSIVE number_string_length(_, _)
number_string_length(b, i) ==
    IF can_access_at_index(b, i)
       /\ (IsDigit(buffer_at_offset(b, i))
           \/ buffer_at_offset(b, i) \in {"+", "-", "e", "E", "."})
    THEN number_string_length(b, i + 1)
    ELSE i

\* number_c_string is taken from the allocator and given back.
parse_number(h, item, b) ==
    IF number_string_length(b, 0) = 0 \/ ~Grant(h) THEN [h |-> h, b |-> b, r |-> FALSE]
    ELSE Bind([t \in {stb_json_strtod(Peek(b, number_string_length(b, 0)))} |->
         IF t.end = 0 THEN [h |-> Spend(h), b |-> b, r |-> FALSE]
         ELSE [h |-> Set(Set(Set(Spend(h), item, "valuedouble", t.r),
                             item, "valueint", Clamp(t.r)),
                         item, "type", STB_JSON_NUMBER),
               b |-> Advance(b, t.end), r |-> TRUE]])

\* The value of one hexadecimal digit, -1 for any other byte.
hex_digit(c) ==
    IF IsDigit(c) THEN Ord(c) - 48
    ELSE IF Ord(c) >= 65 /\ Ord(c) <= 70 THEN 10 + Ord(c) - 65
    ELSE IF Ord(c) >= 97 /\ Ord(c) <= 102 THEN 10 + Ord(c) - 97
    ELSE -1

\* input is a sequence of bytes, i the position (from 1) of its first digit.
parse_hex4(s, i) ==
    IF \E k \in 0..3 : hex_digit(At(s, i + k)) = -1 THEN 0
    ELSE 4096 * hex_digit(At(s, i)) + 256 * hex_digit(At(s, i + 1))
         + 16 * hex_digit(At(s, i + 2)) + hex_digit(At(s, i + 3))

\* s holds the bytes from input to input_end.  n is the number of bytes
\* consumed (0: failure), out the bytes stored through output.
utf16_to_utf8(s) ==
    IF Len(s) < 6 THEN [n |-> 0, out |-> << >>]
    ELSE LET first_code == parse_hex4(s, 3)
             second_code == parse_hex4(s, 9)
             codepoint == 65536 + ((first_code % 1024) * 1024) + (second_code % 1024)
         IN IF first_code = 0 THEN [n |-> 0, out |-> << >>]
            ELSE IF first_code >= 55296 /\ first_code <= 56319
            THEN IF Len(s) < 12 \/ At(s, 7) # "\\" \/ At(s, 8) # "u"
                    \/ second_code < 56320 \/ second_code > 57343
                 THEN [n |-> 0, out |-> << >>]
                 ELSE [n |-> 12,
                       out |-> <<Chr(240 + (codepoint \div 262144)),
                                 Chr(128 + ((codepoint \div 4096) % 64)),
                                 Chr(128 + ((codepoint \div 64) % 64)),
                                 Chr(128 + (codepoint % 64))>>]
            ELSE IF first_code < 128 THEN [n |-> 6, out |-> <<Chr(first_code)>>]
            ELSE IF first_code < 2048
            THEN [n |-> 6, out |-> <<Chr(192 + (first_code \div 64)),
                                     Chr(128 + (first_code % 64))>>]
            ELSE [n |-> 6, out |-> <<Chr(224 + (first_code \div 4096)),
                                     Chr(128 + ((first_code \div 64) % 64)),
                                     Chr(128 + (first_code % 64))>>]

\* parse_string: the offset of the closing quote of the string whose
\* first byte after the opening quote is at offset i, -1 when the buffer
\* ends before it.
RECURSIVE string_end(_, _)
string_end(b, i) ==
    IF ~size_less(i, b.length) THEN -1
    ELSE IF At(b.content, i + 1) = "\"" THEN i
    ELSE IF At(b.content, i + 1) = "\\"
         THEN (IF i + 1 >= b.length THEN -1 ELSE string_end(b, i + 2))
    ELSE string_end(b, i + 1)

\* The byte an escape letter stands for, NUL for a letter that is none.
unescape(c) ==
    CASE c = "b" -> Chr(8)
      [] c = "f" -> "\f"
      [] c = "n" -> "\n"
      [] c = "r" -> "\r"
      [] c = "t" -> "\t"
      [] c \in {"\"", "\\", "/"} -> c
      [] OTHER -> NUL

\* s holds the bytes between the quotes.  out is the decoded string, or
\* NullStr with the position at (from 0) of the escape that has no decoding.
RECURSIVE string_decode(_, _, _)
string_decode(s, i, out) ==
    IF i > Len(s) THEN [out |-> out, at |-> i - 1]
    ELSE IF s[i] # "\\" THEN string_decode(s, i + 1, Append(out, s[i]))
    ELSE IF At(s, i + 1) = "u"
    THEN Bind([u \in {utf16_to_utf8(Drop(s, i - 1))} |->
         IF u.n = 0 THEN [out |-> NullStr, at |-> i - 1]
         ELSE string_decode(s, i + u.n, out \o u.out)])
    ELSE IF unescape(At(s, i + 1)) = NUL THEN [out |-> NullStr, at |-> i - 1]
    ELSE string_decode(s, i + 2, Append(out, unescape(At(s, i + 1))))

\* The decoded string is taken from the allocator; a failure gives it back
\* and leaves the offset at the byte where decoding stopped.
parse_string(h, item, b) ==
    IF buffer_at_offset(b, 0) # "\"" THEN [h |-> h, b |-> b, r |-> FALSE]
    ELSE Bind([e \in {string_end(b, b.offset + 1)} |->
         IF e = -1 THEN [h |-> h, b |-> Advance(b, 1), r |-> FALSE]
         ELSE IF ~Grant(h) THEN [h |-> h, b |-> Advance(b, 1), r |-> FALSE]
         ELSE Bind([d \in {string_decode(SubSeq(b.content, b.offset + 2, e), 1,
                                         << >>)} |->
              IF d.out = NullStr
              THEN [h |-> Spend(h), b |-> Advance(b, 1 + d.at), r |-> FALSE]
              ELSE [h |-> Set(Set([Spend(h) EXCEPT !.nstr = @ + 1],
                                  item, "type", STB_JSON_STRING),
                              item, "valuestring", d.out),
                    b |-> [b EXCEPT !.offset = e + 1], r |-> TRUE]])])

RECURSIVE parse_value(_, _, _)
RECURSIVE parse_array_elements(_, _, _, _, _)
RECURSIVE parse_object_members(_, _, _, _, _)

\* A success: that leaves the depth counter where the container raised it.
parse_success_keeping_depth(h, item, b, head, current_item, type) ==
    [h |-> Set(Set(IF head # NULL THEN Set(h, head, "prev", current_item) ELSE h,
                   item, "type", type),
               item, "child", head),
     b |-> [b EXCEPT !.offset = @ + 1],
     r |-> TRUE]

\* success: of parse_array and parse_object
parse_success(h, item, b, head, current_item, type) ==
    [h |-> Set(Set(IF head # NULL THEN Set(h, head, "prev", current_item) ELSE h,
                   item, "type", type),
               item, "child", head),
     b |-> [b EXCEPT !.depth = @ - 1, !.offset = @ + 1],
     r |-> TRUE]

\* A new item linked behind current_item (the head when there is none).
parse_link(h, head, current_item, new_item) ==
    IF head = NULL THEN h
    ELSE Set(Set(h, current_item, "next", new_item), new_item, "prev", current_item)

\* One turn of the do-while loop of parse_array, and what follows the loop.
parse_array_elements(h, item, b, head, current_item) ==
    Bind([n \in {stb_json_new_item(h)} |->
    IF n.r = NULL THEN [h |-> n.h, b |-> b, r |-> FALSE]
    ELSE Bind([v \in {parse_value(parse_link(n.h, head, current_item, n.r), n.r,
                                  buffer_skip_whitespace(Advance(b, 1)))} |->
         IF ~v.r THEN v
         ELSE Bind([c \in {buffer_skip_whitespace(v.b)} |->
              IF can_access_at_index(c, 0) /\ buffer_at_offset(c, 0) = ","
              THEN parse_array_elements(v.h, item, c,
                                        IF head = NULL THEN n.r ELSE head, n.r)
              ELSE IF cannot_access_at_index(c, 0) \/ buffer_at_offset(c, 0) # "]"
              THEN [h |-> v.h, b |-> c, r |-> FALSE]
              ELSE parse_success(v.h, item, c, IF head = NULL THEN n.r ELSE head,
                                 n.r, STB_JSON_ARRAY)])])])

parse_array(h, item, b) ==
    IF b.depth >= STB_JSON_NESTING_LIMIT THEN [h |-> h, b |-> b, r |-> FALSE]
    ELSE IF buffer_at_offset(b, 0) # "["
    THEN [h |-> h, b |-> [b EXCEPT !.depth = @ + 1], r |-> FALSE]
    ELSE Bind([c \in {buffer_skip_whitespace(
                          [b EXCEPT !.depth = @ + 1, !.offset = @ + 1])} |->
         IF can_access_at_index(c, 0) /\ buffer_at_offset(c, 0) = "]"
         THEN parse_success(h, item, c, NULL, NULL, STB_JSON_ARRAY)
         ELSE IF cannot_access_at_index(c, 0)
         THEN [h |-> h, b |-> Advance(c, -1), r |-> FALSE]
         ELSE parse_array_elements(h, item, Advance(c, -1), NULL, NULL)])

\* The key of a member: parse_string, then the string moved from
\* valuestring to string, then the colon.
parse_object_key(h, current_item, b) ==
    IF cannot_access_at_index(b, 1) THEN [h |-> h, b |-> b, r |-> FALSE]
    ELSE Bind([k \in {parse_string(h, current_item,
                                   buffer_skip_whitespace(Advance(b, 1)))} |->
         IF ~k.r THEN k
         ELSE Bind([c \in {buffer_skip_whitespace(k.b)} |->
              [h |-> Set(Set(k.h, current_item, "string",
                             k.h.n[current_item].valuestring),
                         current_item, "valuestring", NullStr),
               b |-> IF cannot_access_at_index(c, 0) \/ buffer_at_offset(c, 0) # ":"
                     THEN c ELSE buffer_skip_whitespace(Advance(c, 1)),
               r |-> ~(cannot_access_at_index(c, 0) \/ buffer_at_offset(c, 0) # ":")]])])

\* One turn of the do-while loop of parse_object, and what follows the loop.
parse_object_members(h, item, b, head, current_item) ==
    Bind([n \in {stb_json_new_item(h)} |->
    IF n.r = NULL THEN [h |-> n.h, b |-> b, r |-> FALSE]
    ELSE Bind([k \in {parse_object_key(parse_link(n.h, head, current_item, n.r),
                                       n.r, b)} |->
         IF ~k.r THEN k
         ELSE Bind([v \in {parse_value(k.h, n.r, k.b)} |->
              IF ~v.r THEN v
              ELSE Bind([c \in {buffer_skip_whitespace(v.b)} |->
                   IF can_access_at_index(c, 0) /\ buffer_at_offset(c, 0) = ","
                   THEN parse_object_members(v.h, item, c,
                                             IF head = NULL THEN n.r ELSE head, n.r)
                   ELSE IF cannot_access_at_index(c, 0)
                           \/ buffer_at_offset(c, 0) # "}"
                   THEN [h |-> v.h, b |-> c, r |-> FALSE]
                   ELSE parse_success(v.h, item, c,
                                      IF head = NULL THEN n.r ELSE head, n.r,
                                      STB_JSON_OBJECT)])])])])

parse_object(h, item, b) ==
    IF b.depth >= STB_JSON_NESTING_LIMIT THEN [h |-> h, b |-> b, r |-> FALSE]
    ELSE IF cannot_access_at_index(b, 0) \/ buffer_at_offset(b, 0) # "{"
    THEN [h |-> h, b |-> [b EXCEPT !.depth = @ + 1], r |-> FALSE]
    ELSE Bind([c \in {buffer_skip_whitespace(
                          [b EXCEPT !.depth = @ + 1, !.offset = @ + 1])} |->
         IF can_access_at_index(c, 0) /\ buffer_at_offset(c, 0) = "}"
         THEN parse_success(h, item, c, NULL, NULL, STB_JSON_OBJECT)
         ELSE IF cannot_access_at_index(c, 0)
         THEN [h |-> h, b |-> Advance(c, -1), r |-> FALSE]
         ELSE parse_object_members(h, item, Advance(c, -1), NULL, NULL)])

parse_value(h, item, b) ==
    IF can_read(b, 4) /\ Peek(b, 4) = <<"n", "u", "l", "l">>
    THEN [h |-> Set(h, item, "type", STB_JSON_NULL), b |-> Advance(b, 4), r |-> TRUE]
    ELSE IF can_read(b, 5) /\ Peek(b, 5) = <<"f", "a", "l", "s", "e">>
    THEN [h |-> Set(h, item, "type", STB_JSON_FALSE), b |-> Advance(b, 5), r |-> TRUE]
    ELSE IF can_read(b, 4) /\ Peek(b, 4) = <<"t", "r", "u", "e">>
    THEN [h |-> Set(Set(h, item, "type", STB_JSON_TRUE), item, "valueint", 1),
          b |-> Advance(b, 4), r |-> TRUE]
    ELSE IF cannot_access_at_index(b, 0) THEN [h |-> h, b |-> b, r |-> FALSE]
    ELSE IF buffer_at_offset(b, 0) = "\"" THEN parse_string(h, item, b)
    ELSE IF buffer_at_offset(b, 0) = "-" \/ IsDigit(buffer_at_offset(b, 0))
    THEN parse_number(h, item, b)
    ELSE IF buffer_at_offset(b, 0) = "[" THEN parse_array(h, item, b)
    ELSE IF buffer_at_offset(b, 0) = "{" THEN parse_object(h, item, b)
    ELSE [h |-> h, b |-> b, r |-> FALSE]

\* An entry that leaves global_error as the previous call set it.
parse_reset_error_kept(error) == error

\* global_error.json = NULL; global_error.position = 0;
parse_reset_error(error) == [json |-> NullStr, position |-> 0]

\* fail: of stb_json_parse_withlengthopts
parse_fail(h, error, item, value, b) ==
    [h |-> stb_json_delete(h, item), r |-> NULL,
     error |-> IF value = NullStr THEN parse_reset_error(error)
               ELSE [json |-> value,
                     position |-> IF size_less(b.offset, b.length) THEN b.offset
                                  ELSE IF b.length > 0 THEN b.length - 1
                                  ELSE 0],
     end |-> IF size_less(b.offset, b.length) THEN b.offset
             ELSE IF b.length > 0 THEN b.length - 1 ELSE 0]

\* error is the value global_error has when the call returns, end the
\* offset stored through return_parse_end.
stb_json_parse_withlengthopts(h, error, value, buffer_length, require_null_terminated) ==
    IF value = NullStr \/ buffer_length = 0
    THEN parse_fail(h, error, NULL, value, parse_buffer(<< >>, 0))
    ELSE Bind([n \in {stb_json_new_item(h)} |->
         IF n.r = NULL
         THEN parse_fail(n.h, error, NULL, value, parse_buffer(value, buffer_length))
         ELSE Bind([v \in {parse_value(n.h, n.r,
                               buffer_skip_whitespace(
                                   skip_utf8_bom(parse_buffer(value, buffer_length))))} |->
              IF ~v.r THEN parse_fail(v.h, error, n.r, value, v.b)
              ELSE Bind([c \in {IF require_null_terminated
                                THEN buffer_skip_whitespace(v.b) ELSE v.b} |->
                   IF require_null_terminated
                      /\ (~size_less(c.offset, c.length)
                          \/ buffer_at_offset(c, 0) # NUL)
                   THEN parse_fail(v.h, error, n.r, value, c)
                   ELSE [h |-> v.h, r |-> n.r,
                         error |-> parse_reset_error(error),
                         end |-> c.offset]])])])

stb_json_parse_withopts(h, error, value, require_null_terminated) ==
    stb_json_parse_withlengthopts(h, error, value,
                                  IF value = NullStr THEN 0 ELSE Len(value) + 1,
                                  require_null_terminated)

stb_json_parse(h, error, value) == stb_json_parse_withopts(h, error, value, FALSE)

stb_json_parse_withlength(h, error, value, buffer_length) ==
    stb_json_parse_withlengthopts(h, error, value, buffer_length, FALSE)

stb_json_geterrorptr(error) ==
    IF error.json = NullStr THEN [json |-> NullStr, position |-> 0]
    ELSE [json |-> error.json, position |-> error.position]

(***************************************************************************)
(* Parsing and printing: a program that makes a bounded number of parse    *)
(* calls in a row.  The text it parses is either the print of a tree it    *)
(* has built or a text it was handed; the allocator may fail during the    *)
(* parse.  Between two calls the program releases what the call returned.  *)
(***************************************************************************)
MaxCalls == 2

True == Value(STB_JSON_TRUE, DZero, NullStr, << >>)
False == Value(STB_JSON_FALSE, DZero, NullStr, << >>)
NumD(m, e) == Value(STB_JSON_NUMBER, Dbl(m, e), NullStr, << >>)

RECURSIVE Nest(_, _)
Nest(kind, n) ==
    IF n = 0 THEN Num(1)
    ELSE IF kind = STB_JSON_ARRAY THEN Arr(<<Nest(kind, n - 1)>>)
    ELSE Obj(<<Keyed(<<"k">>, Nest(kind, n - 1))>>)

RECURSIVE Depth(_)
Depth(v) ==
    IF v.k \notin {STB_JSON_ARRAY, STB_JSON_OBJECT} THEN 0
    ELSE IF v.c = << >> THEN 1
    ELSE 1 + (CHOOSE d \in {Depth(v.c[i]) : i \in 1..Len(v.c)} :
                 \A i \in 1..Len(v.c) : Depth(v.c[i]) <= d)

\* A tree of depth two with every kind of value in it.
RichDoc ==
    Obj(<<Keyed(<<"a">>, Arr(<<Num(1), Str(<<"q", "\"", "\\", "\n">>), NumD(15, -1),
                                True, Nul>>)),
          Keyed(<<"b", "\t">>, Obj(<< >>)),
          Keyed(<<"a">>, False)>>)

RoundDocs ==
    { Nul, True, False, Num(0), Num(-7), Num(INT_MAX), NumD(15, -1), NumD(-25, -2),
      NumD(3, 9), NumD(1, -5), NumD(1, 15), NumD(114, -2), NumD(114, -28),
      Value(STB_JSON_NUMBER, DAdd(Dbl(1, -1), Dbl(2, -1)), NullStr, << >>),
      Str(<< >>), Str(<<"a", " ", "b">>), Str(<<"\"", "\\", "/">>),
      Str(<<"\n", Chr(1), Chr(8), "\f">>), Str(<<Chr(195), Chr(169)>>),
      Arr(<< >>), Obj(<< >>), Arr(<<Num(1), Str(<<"s">>), Nul>>),
      Obj(<<Keyed(<< >>, Num(1)), Keyed(<<"b">>, Str(<<"s">>))>>),
      RichDoc,
      Arr(<<Nest(STB_JSON_ARRAY, STB_JSON_NESTING_LIMIT - 1),
            Nest(STB_JSON_OBJECT, STB_JSON_NESTING_LIMIT - 1)>>),
      Nest(STB_JSON_ARRAY, STB_JSON_NESTING_LIMIT),
      Nest(STB_JSON_OBJECT, STB_JSON_NESTING_LIMIT),
      Nest(STB_JSON_ARRAY, STB_JSON_NESTING_LIMIT + 1),
      Nest(STB_JSON_OBJECT, STB_JSON_NESTING_LIMIT + 1) }

\* The trees serialized for a call that is not the first: the later calls
\* are there for what one call leaves to the next.
LaterDocs ==
    { Nul, Arr(<<Num(1), Str(<<"s">>), Nul>>),
      Nest(STB_JSON_OBJECT, STB_JSON_NESTING_LIMIT),
      Nest(STB_JSON_ARRAY, STB_JSON_NESTING_LIMIT + 1) }

PrintModes == {"print", "unformatted", "buffered"}

Texts ==
    { << >>,
      <<" ">>,
      <<"n", "u", "l">>,
      <<"n", "u", "l", "l">>,
      <<"t", "r", "u">>,
      <<"t", "r", "u", "e", " ", "x">>,
      <<"[", "1", ",">>,
      <<"[", "1", " ", "2", "]">>,
      <<"[", "1", ",", "2", "]">>,
      <<"[">>,
      <<"[", "1", "]", "x">>,
      <<"{", "\"", "a", "\"", ":", "1", ",", "}">>,
      <<"{", "\"", "a", "\"", ":", "[", "1", ",">>,
      <<"{", "\"", "a", "\"", " ", "1", "}">>,
      <<"{", "\"", "a", "\"", ":">>,
      <<"{", "a", "}">>,
      <<"\"", "a", "b">>,
      <<"\"", "a", "\\", "q", "\"">>,
      <<"\"", "\\", "u", "0", "0", "4", "1", "\"">>,
      <<"\"", "\\", "u", "d", "8", "3", "d", "\\", "u", "d", "e", "0", "0", "\"">>,
      <<"\"", "\\", "u", "d", "8", "3", "d", "\"">>,
      <<"-">>,
      <<"-", "1", ".", "5", "e", "1">>,
      <<"1", "e">>,
      <<"[", "[", "1", "]", ",", "[", "2", "]", "]">>,
      <<"xef", "xbb", "xbf", "[", "1", "]">>,
      <<"{", "\"", "a", "\"", ":", "{", "\"", "b", "\"", ":", "[", "1", ",">>,
      <<" ", "[", " ", "1", " ", ",", " ", "\"", "s", "\"", " ", "]", " ">>,
      <<"{", "\"", "a", "\"", ":", "\"", "s", "\"", ",", "\"", "b", "\"", ":", "[", "1", ",",
        "\"", "t", "\"", ",">>,
      Repeat("[", STB_JSON_NESTING_LIMIT + 1) \o <<"1">>
          \o Repeat("]", STB_JSON_NESTING_LIMIT + 1),
      <<"[", "1", ",">> \o Repeat("[", STB_JSON_NESTING_LIMIT) \o <<"]">> }

\* How the parser is entered: the call and, for a call with a length, the
\* length passed (the text without its terminating NUL, or nothing at all).
ParseArguments ==
    {[value |-> t, length |-> Len(t) + 1, api |-> a] :
        t \in Texts, a \in {"parse", "withopts"}}
    \cup {[value |-> t, length |-> Len(t), api |-> "withlength"] : t \in Texts}
    \cup {[value |-> NullStr, length |-> 0, api |-> "parse"],
          [value |-> NullStr, length |-> 3, api |-> "withlength"]}

\* The allocations the allocator grants before it fails (-1: all of them).
Fuels == {-1, 0, 1, 2, 3}

NoArguments == [value |-> NullStr, length |-> 0, api |-> "parse"]

ParseGhost(mode, v, hist, h, fuel) ==
    [mode |-> mode, v |-> v, hist |-> hist, used |-> h.used, nstr |-> h.nstr,
     fuel |-> fuel]

\* The cells that are not live hold nothing a program may read: they are
\* taken as zeroed, and the heap ends at its last live cell.
RECURSIVE Scrub(_)
Scrub(h) ==
    IF h.n # << >> /\ Len(h.n) \notin h.used
    THEN Scrub([h EXCEPT !.n = Take(@, Len(@) - 1)])
    ELSE [h EXCEPT !.n = [i \in 1..Len(@) |-> IF i \in h.used THEN @[i] ELSE ZeroNode]]

ParseInit ==
    /\ heap = EmptyHeap
    /\ pc = "idle"
    /\ object = NULL
    /\ other = NULL
    /\ patches = NULL
    /\ current_patch = NULL
    /\ status = 0
    /\ global_error = NoError
    /\ input = NoArguments
    /\ ghost = ParseGhost("none", Nul, << >>, EmptyHeap, -1)

print_as(h, item, mode) ==
    IF mode = "print" THEN stb_json_print(h, item)
    ELSE IF mode = "unformatted" THEN stb_json_print_unformatted(h, item)
    ELSE stb_json_printbuffered(h, item, 4, TRUE)

\* text = stb_json_print(tree) (or one of its variants); stb_json_delete(tree)
ParseSerialize ==
    /\ pc = "idle"
    /\ Len(ghost.hist) < MaxCalls
    /\ \E v \in (IF ghost.hist = << >> THEN RoundDocs ELSE LaterDocs),
          mode \in PrintModes :
       \E t \in {Build(heap, v)} :
       \E s \in {print_as(t.h, t.r, mode)} :
          /\ s.r # NullStr
          /\ heap' = Scrub(stb_json_delete(s.h, t.r))
          /\ input' = [value |-> s.r, length |-> Len(s.r) + 1, api |-> "parse"]
          /\ ghost' = [ghost EXCEPT !.mode = mode, !.v = v]
    /\ pc' = "ready"
    /\ UNCHANGED <<object, other, patches, current_patch, status, global_error>>

\* The program is handed a text.
ParseSupply ==
    /\ pc = "idle"
    /\ Len(ghost.hist) < MaxCalls
    /\ \E a \in ParseArguments :
          /\ input' = a
          /\ ghost' = [ghost EXCEPT !.mode = "text"]
    /\ pc' = "ready"
    /\ UNCHANGED <<heap, object, other, patches, current_patch, status,
                   global_error>>

parse_as(h, error, a) ==
    IF a.api = "parse" THEN stb_json_parse(h, error, a.value)
    ELSE IF a.api = "withopts" THEN stb_json_parse_withopts(h, error, a.value, TRUE)
    ELSE stb_json_parse_withlength(h, error, a.value, a.length)

\* object = stb_json_parse(text) (or one of its variants)
ParseCall ==
    /\ pc = "ready"
    /\ \E fuel \in Fuels :
       \E p \in {parse_as([heap EXCEPT !.fuel = fuel], global_error, input)} :
          /\ heap' = p.h
          /\ object' = p.r
          /\ global_error' = p.error
          /\ ghost' = ParseGhost(ghost.mode, ghost.v,
                                 Append(ghost.hist,
                                        IF p.r = NULL THEN "fail" ELSE "ok"),
                                 heap, fuel)
    /\ pc' = "parsed"
    /\ UNCHANGED <<other, patches, current_patch, status, input>>

\* stb_json_delete(object); free(text) when the text was printed
ParseRelease ==
    /\ pc = "parsed"
    /\ \E h \in {Scrub(free_if(stb_json_delete(heap, object), ghost.mode # "text"))} :
          /\ heap' = [h EXCEPT !.fuel = -1]
          /\ ghost' = ParseGhost("none", Nul, ghost.hist, h, -1)
    /\ object' = NULL
    /\ input' = NoArguments
    /\ pc' = "idle"
    /\ UNCHANGED <<other, patches, current_patch, status, global_error>>

ParseNext == ParseSerialize \/ ParseSupply \/ ParseCall \/ ParseRelease

SpecParse == ParseInit /\ [][ParseNext]_vars

Serialised == ghost.mode \in PrintModes

\* Equality of two values as the claim words it: same kinds, same child
\* order, same keys, same string bytes, and numbers that the library's own
\* comparison of doubles takes for equal.
RECURSIVE Alike(_, _)
Alike(a, b) ==
    /\ a.k = b.k
    /\ a.key = b.key
    /\ a.str = b.str
    /\ compare_double(a.num, b.num)
    /\ Len(a.c) = Len(b.c)
    /\ \A i \in 1..Len(a.c) : Alike(a.c[i], b.c[i])

\* C3: for every tree v without raw nodes and non-finite numbers, parsing
\* the text produced by serializing v (compact or indented) succeeds and
\* yields a tree structurally equal to v: same kinds, same child order,
\* same keys, same string bytes and same numbers.  The trees looked at are
\* those the parser's nesting limit lets through.
C3_RoundTrip ==
    (pc = "parsed" /\ Serialised /\ ghost.fuel = -1
     /\ Depth(ghost.v) <= STB_JSON_NESTING_LIMIT) =>
        /\ object # NULL
        /\ Alike(Strip(Abs(heap, object)), ghost.v)

\* A scratch heap with one item in it, to parse a value into.
ScratchItem == stb_json_new_item(EmptyHeap)

\* C5: with nesting limit L a valid text nested exactly L deep parses, one
\* nested L + 1 deep does not, no parsed tree is deeper than L, and a
\* container that closes successfully leaves the depth counter as it found
\* it, so that sibling containers do not add up.
C5_NestingLimit ==
    /\ (pc = "parsed" /\ Serialised /\ ghost.fuel = -1) =>
          (object # NULL <=> Depth(ghost.v) <= STB_JSON_NESTING_LIMIT)
    /\ (pc = "parsed" /\ object # NULL) =>
          Depth(Abs(heap, object)) <= STB_JSON_NESTING_LIMIT
    /\ (pc = "parsed" /\ Len(ghost.hist) = 1 /\ input.value # NullStr) =>
          \A i \in 0..(input.length - 1), d \in 0..STB_JSON_NESTING_LIMIT :
             At(input.value, i + 1) \in {"[", "{"} =>
                \E p \in {parse_value(ScratchItem.h, ScratchItem.r,
                                      [content |-> input.value,
                                       length |-> input.length,
                                       offset |-> i, depth |-> d])} :
                   p.r => p.b.depth = d

\* Two sibling containers, each reaching the limit, have been parsed.
C5_Witness ==
    /\ pc = "parsed"
    /\ ghost.mode = "unformatted"
    /\ ghost.v = Arr(<<Nest(STB_JSON_ARRAY, STB_JSON_NESTING_LIMIT - 1),
                       Nest(STB_JSON_OBJECT, STB_JSON_NESTING_LIMIT - 1)>>)
    /\ object # NULL
    /\ Depth(Abs(heap, object)) = STB_JSON_NESTING_LIMIT

\* C6: when a parse fails (a syntax error after children were created, the
\* depth exceeded, an allocation failure), every node and string allocated
\* during the parse has been released exactly once when the entry point
\* returns null: the live cells and strings are those of before the call,
\* and nothing was released twice.
C6_FailedParseReleasesAll ==
    (pc = "parsed" /\ object = NULL) =>
        /\ heap.used = ghost.used
        /\ heap.nstr = ghost.nstr
        /\ ~heap.bad

\* C7: stb_json_geterrorptr returns null when the most recent parse
\* succeeded or none has run; after a failed parse of a non-null, non-empty
\* buffer it points into that buffer, at an offset from 0 to length - 1.
C7_ErrorPointer ==
    /\ (ghost.hist = << >> \/ Last(ghost.hist) = "ok") =>
          stb_json_geterrorptr(global_error).json = NullStr
    /\ (pc = "parsed" /\ Last(ghost.hist) = "fail" /\ input.value # NullStr
        /\ input.length > 0) =>
          /\ stb_json_geterrorptr(global_error).json = input.value
          /\ stb_json_geterrorptr(global_error).position \in 0..(input.length - 1)

\* A parse has succeeded right after one that failed.
C7_Witness ==
    /\ pc = "parsed"
    /\ ghost.hist = <<"fail", "ok">>
    /\ stb_json_geterrorptr(global_error).json = NullStr

(***************************************************************************)
(* The minifier.  stb_json_minify works in place on a C string: json and   *)
(* into are cursors into one block, whose bytes are numbered from 0.  The  *)
(* block is the text and its terminating NUL; what lies behind it in       *)
(* memory is not the caller's, and "beyond" is what a read there returns.  *)
(***************************************************************************)
MaxText == 5

cursor(block, beyond) ==
    [block |-> block, beyond |-> beyond, json |-> 0, into |-> 0, overrun |-> FALSE]

\* *json and json[1]
ByteAt(s, i) ==
    IF i < Len(s.block) THEN s.block[i + 1]
    ELSE IF i - Len(s.block) < Len(s.beyond) THEN s.beyond[i - Len(s.block) + 1]
    ELSE NUL
Get(s) == ByteAt(s, s.json)

\* The cursor at a byte that is read: a read behind the block is an overrun.
Reading(s) == [s EXCEPT !.overrun = @ \/ s.json >= Len(s.block)]

\* *into = c
Put(s, c) ==
    IF s.into < Len(s.block) THEN [s EXCEPT !.block[s.into + 1] = c]
    ELSE [s EXCEPT !.overrun = TRUE]

Skip(s, n) == [s EXCEPT !.json = @ + n]
Both(s) == [s EXCEPT !.json = @ + 1, !.into = @ + 1]

\* The body of the loop of minify_string for a backslash, lines 742-747.
minify_string_escape(s) ==
    LET a == Reading(Both(Put(s, Get(s))))
    IN IF Get(a) # NUL
       THEN IF Get(a) = "\"" THEN Skip(Put(a, Get(a)), 1) ELSE Put(a, Get(a))
       ELSE a

RECURSIVE minify_string_loop(_)
minify_string_loop(s) ==
    IF Get(s) = NUL \/ Get(s) = "\"" THEN s
    ELSE minify_string_loop(
             Reading(Both(IF Get(s) = "\\" THEN minify_string_escape(s)
                          ELSE Put(s, Get(s)))))

minify_string(s) ==
    LET t == minify_string_loop(Reading(Both(Put(s, Get(s)))))
    IN IF Get(t) = "\"" THEN Both(Put(t, Get(t))) ELSE t

RECURSIVE skip_oneline_comment_loop(_)
skip_oneline_comment_loop(s) ==
    IF Get(s) = NUL THEN s
    ELSE IF Get(s) = "\n" THEN Skip(s, 1)
    ELSE skip_oneline_comment_loop(Reading(Skip(s, 1)))
skip_oneline_comment(s) == skip_oneline_comment_loop(Reading(Skip(s, 2)))

RECURSIVE skip_multiline_comment_loop(_)
skip_multiline_comment_loop(s) ==
    IF Get(s) = NUL THEN s
    ELSE IF Get(s) = "*" /\ ByteAt(s, s.json + 1) = "/" THEN Skip(s, 2)
    ELSE skip_multiline_comment_loop(Reading(Skip(s, 1)))
skip_multiline_comment(s) == skip_multiline_comment_loop(Reading(Skip(s, 2)))

RECURSIVE stb_json_minify_loop(_)
stb_json_minify_loop(s) ==
    IF Get(s) = NUL THEN Put(s, NUL)
    ELSE stb_json_minify_loop(Reading(
             IF Get(s) \in {" ", "\t", "\r", "\n"} THEN Skip(s, 1)
             ELSE IF Get(s) = "/"
             THEN IF ByteAt(s, s.json + 1) = "/" THEN skip_oneline_comment(s)
                  ELSE IF ByteAt(s, s.json + 1) = "*" THEN skip_multiline_comment(s)
                  ELSE Skip(s, 1)
             ELSE IF Get(s) = "\"" THEN minify_string(s)
             ELSE Both(Put(s, Get(s)))))

\* stb_json_minify(json) on a block; the result is the cursor at return.
stb_json_minify(json, beyond) ==
    IF json = NullStr THEN cursor(json, beyond)
    ELSE stb_json_minify_loop(Reading(cursor(json, beyond)))

\* The C string a block holds.
CString(block) == Take(block, strlen(block, 0))

MinifyBytes == {"\"", "\\", "a", " ", "/", "*", "\n"}
ReadmeText ==
    <<"{", " ", "\"", "k", "e", "y", "\"", ":", " ", "\"", "v", "a", "l", "u", "e",
      "\"", " ", "}">>
MinifyTexts == SeqsUpTo(MinifyBytes, MaxText) \cup {ReadmeText}
Beyond == {<< >>, <<"a">>, <<"\"", "a", "\"">>}

MinifyGhost(t) ==
    [mode |-> "minify", t |-> t, outs |-> << >>, overrun |-> FALSE,
     json |-> 0, into |-> 0]

MinifyInit ==
    /\ \E t \in MinifyTexts :
          /\ input = [json |-> t \o <<NUL>>]
          /\ ghost = MinifyGhost(t)
    /\ pc = "minify"
    /\ heap = EmptyHeap
    /\ object = NULL /\ other = NULL /\ patches = NULL /\ current_patch = NULL
    /\ status = 0
    /\ global_error = NoError

\* stb_json_minify(json), on the text and then on its own output.
MinifyCall ==
    /\ pc = "minify"
    /\ Len(ghost.outs) < 2
    /\ ~ghost.overrun
    /\ \E beyond \in Beyond :
          \E m \in {stb_json_minify(input.json, beyond)} :
             /\ (~m.overrun) => beyond = << >>
             /\ input' = [json |-> m.block]
             /\ ghost' = [ghost EXCEPT !.outs = Append(@, CString(m.block)),
                                       !.overrun = m.overrun,
                                       !.json = m.json, !.into = m.into]
    /\ UNCHANGED <<heap, pc, object, other, patches, current_patch, status,
                   global_error>>

MinifyNext == MinifyCall

SpecMinify == MinifyInit /\ [][MinifyNext]_vars

\* C13: stb_json_minify is idempotent: running it on its own output leaves
\* the buffer byte-for-byte unchanged.
C13_MinifyIdempotent ==
    (ghost.mode = "minify" /\ Len(ghost.outs) = 2 /\ ~ghost.overrun) =>
        ghost.outs[2] = ghost.outs[1]

\* What the claim expects of a text: outside string literals whitespace and
\* comments go (and, as in the code, a '/' that opens no comment); a literal
\* is copied from its opening quote to the matching closing quote, a
\* backslash escaping the byte after it.
RECURSIVE LiteralEnd(_, _)
LiteralEnd(t, i) ==
    IF i > Len(t) THEN Len(t) + 1
    ELSE IF t[i] = "\"" THEN i
    ELSE IF t[i] = "\\" THEN LiteralEnd(t, i + 2)
    ELSE LiteralEnd(t, i + 1)

RECURSIVE LineEnd(_, _)
LineEnd(t, i) ==
    IF i > Len(t) THEN Len(t) ELSE IF t[i] = "\n" THEN i ELSE LineEnd(t, i + 1)

RECURSIVE CommentEnd(_, _)
CommentEnd(t, i) ==
    IF i > Len(t) THEN Len(t)
    ELSE IF t[i] = "*" /\ i < Len(t) /\ t[i + 1] = "/" THEN i + 1
    ELSE CommentEnd(t, i + 1)

RECURSIVE Minified(_, _)
Minified(t, i) ==
    IF i > Len(t) THEN << >>
    ELSE IF t[i] \in {" ", "\t", "\r", "\n"} THEN Minified(t, i + 1)
    ELSE IF t[i] = "/"
    THEN IF i < Len(t) /\ t[i + 1] = "/" THEN Minified(t, LineEnd(t, i + 2) + 1)
         ELSE IF i < Len(t) /\ t[i + 1] = "*" THEN Minified(t, CommentEnd(t, i + 2) + 1)
         ELSE Minified(t, i + 1)
    ELSE IF t[i] = "\""
    THEN SubSeq(t, i, Min(LiteralEnd(t, i + 1), Len(t)))
         \o Minified(t, LiteralEnd(t, i + 1) + 1)
    ELSE <<t[i]>> \o Minified(t, i + 1)

\* The literals of the text are all closed.
RECURSIVE Closed(_, _)
Closed(t, i) ==
    IF i > Len(t) THEN TRUE
    ELSE IF t[i] \in {" ", "\t", "\r", "\n"} THEN Closed(t, i + 1)
    ELSE IF t[i] = "/"
    THEN IF i < Len(t) /\ t[i + 1] = "/" THEN Closed(t, LineEnd(t, i + 2) + 1)
         ELSE IF i < Len(t) /\ t[i + 1] = "*" THEN Closed(t, CommentEnd(t, i + 2) + 1)
         ELSE Closed(t, i + 1)
    ELSE IF t[i] = "\""
    THEN /\ LiteralEnd(t, i + 1) <= Len(t)
         /\ Closed(t, LiteralEnd(t, i + 1) + 1)
    ELSE Closed(t, i + 1)

\* C14: every string literal of the input appears in the minified output
\* byte for byte, closing quote included, while whitespace and comments
\* outside string literals are removed.
C14_MinifyKeepsLiterals ==
    (ghost.mode = "minify" /\ Len(ghost.outs) = 1 /\ ~ghost.overrun
        /\ Closed(ghost.t, 1)) =>
        ghost.outs[1] = Minified(ghost.t, 1)

(***************************************************************************)
(* JSON Pointer resolution: a path is resolved against a document by one   *)
(* of the two public entry points.                                         *)
(***************************************************************************)
MaxPath == 4

PointerDocs ==
    { Num(1),
      Arr(<<Num(1), Num(2)>>),
      Obj(<<Keyed(<<"a">>, Num(1)), Keyed(<<"0">>, Num(2)), Keyed(<<"A">>, Num(3))>>),
      Obj(<<Keyed(<<"a">>, Arr(<<Num(1), Obj(<<Keyed(<<"a">>, Num(2))>>)>>)),
            Keyed(<<"1">>, Num(3))>>),
      Arr(<<Arr(<<Num(1)>>), Obj(<<Keyed(<<"1">>, Num(2)), Keyed(<<"a", "/", "a">>, Num(3))>>)>>) }
PointerBytes == {"/", "a", "0", "1", "~"}
PointerPaths == SeqsUpTo(PointerBytes, MaxPath)

PointerGhost(doc, path) ==
    [mode |-> "pointer", doc |-> doc, path |-> path]

PointerInit ==
    /\ \E doc \in PointerDocs, path \in PointerPaths :
          \E b \in {Build(EmptyHeap, doc)} :
             /\ heap = b.h /\ object = b.r
             /\ ghost = PointerGhost(doc, path)
             /\ \E case_sensitive \in BOOLEAN :
                   input = [pointer |-> path, case_sensitive |-> case_sensitive]
    /\ pc = "resolve"
    /\ other = NULL /\ patches = NULL /\ current_patch = NULL /\ status = 0
    /\ global_error = NoError

\* other = stb_json_utils_getpointer[casesensitive](object, pointer)
PointerCall ==
    /\ pc = "resolve"
    /\ other' = IF input.case_sensitive
                THEN stb_json_utils_getpointercasesensitive(heap, object, input.pointer)
                ELSE stb_json_utils_getpointer(heap, object, input.pointer)
    /\ pc' = "done"
    /\ UNCHANGED <<heap, object, patches, current_patch, status, global_error,
                   input, ghost>>

PointerNext == PointerCall

SpecPointer == PointerInit /\ [][PointerNext]_vars

\* A reference token with its escapes undone: ~1 is '/', ~0 is '~'.
RECURSIVE Unescaped(_)
Unescaped(tok) ==
    IF tok = << >> THEN << >>
    ELSE IF Len(tok) >= 2 /\ tok[1] = "~" /\ tok[2] = "1"
    THEN <<"/">> \o Unescaped(Drop(tok, 2))
    ELSE IF Len(tok) >= 2 /\ tok[1] = "~" /\ tok[2] = "0"
    THEN <<"~">> \o Unescaped(Drop(tok, 2))
    ELSE <<Head(tok)>> \o Unescaped(Tail(tok))

\* The escapes of a token are all ~0 or ~1.
RECURSIVE WellEscaped(_)
WellEscaped(tok) ==
    IF tok = << >> THEN TRUE
    ELSE IF tok[1] = "~"
    THEN Len(tok) >= 2 /\ tok[2] \in {"0", "1"} /\ WellEscaped(Drop(tok, 2))
    ELSE WellEscaped(Tail(tok))

Folded(str) == [i \in 1..Len(str) |-> tolower(str[i])]

Names(key, tok, case_sensitive) ==
    /\ WellEscaped(tok)
    /\ IF case_sensitive THEN key = Unescaped(tok)
       ELSE Folded(key) = Folded(Unescaped(tok))

\* The position in v.c of the child a token identifies, 0 when there is none.
Identified(v, tok, case_sensitive) ==
    IF v.k = STB_JSON_ARRAY
    THEN IF IsDecimal(tok) /\ DecimalValue(tok) < Len(v.c)
         THEN DecimalValue(tok) + 1 ELSE 0
    ELSE IF v.k = STB_JSON_OBJECT
            /\ \E i \in 1..Len(v.c) : Names(v.c[i].key, tok, case_sensitive)
    THEN CHOOSE i \in 1..Len(v.c) :
             /\ Names(v.c[i].key, tok, case_sensitive)
             /\ \A j \in 1..(i - 1) : ~Names(v.c[j].key, tok, case_sensitive)
    ELSE 0

\* The node the tokens identify, as a sequence of one value; empty when
\* they identify none.
RECURSIVE Resolved(_, _, _)
Resolved(v, toks, case_sensitive) ==
    IF toks = << >> THEN <<v>>
    ELSE IF Identified(v, Head(toks), case_sensitive) = 0 THEN << >>
    ELSE Resolved(v.c[Identified(v, Head(toks), case_sensitive)], Tail(toks),
                  case_sensitive)

\* What the claim expects of a path: a path that is not empty begins with '/'.
Expected(v, path, case_sensitive) ==
    IF path # << >> /\ Head(path) # "/" THEN << >>
    ELSE Resolved(v, Tokens(path), case_sensitive)

PointerDone == pc = "done" /\ ghost.mode = "pointer"

\* C15: pointer resolution returns the root for the empty path and
\* not-found for every path that identifies no node: a token naming no key,
\* an index at or beyond the array length, a token with a leading zero or a
\* non-digit against an array, a path continuing below a scalar, and a
\* non-empty path that does not begin with '/'; otherwise the node identified.
C15_PointerResolution ==
    PointerDone =>
        LET expected == Expected(ghost.doc, ghost.path, input.case_sensitive)
        IN IF expected = << >> THEN other = NULL
           ELSE other # NULL /\ Abs(heap, other) = expected[1]

(***************************************************************************)
(* The \uXXXX decoder, applied to the bytes from a backslash to the end of *)
(* a string.                                                               *)
(***************************************************************************)
Quads ==
    { <<"0", "0", "0", "0">>, <<"0", "0", "4", "1">>, <<"0", "0", "e", "9">>,
      <<"2", "0", "A", "C">>, <<"D", "8", "0", "0">>, <<"d", "8", "3", "d">>,
      <<"D", "B", "F", "F">>, <<"D", "C", "0", "0">>, <<"d", "e", "0", "0">>,
      <<"D", "F", "F", "F">>, <<"E", "0", "0", "0">>, <<"F", "F", "F", "F">>,
      <<"0", "0", "g", "0">> }
Escape(quad) == <<"\\", "u">> \o quad
Followers ==
    {<< >>, <<"a">>, <<"\\", "u", "D", "C", "0">>, <<"\\", "n", "D", "C", "0", "0">>,
     <<"a", "b", "c", "d", "e", "f">>}
        \cup {Escape(q) : q \in Quads}
Escapes == {Escape(q) \o f : q \in Quads, f \in Followers} \cup {<<"\\", "u", "0", "0", "4">>}

Utf16Ghost(s) == [mode |-> "utf16", s |-> s, n |-> -1, out |-> << >>]

Utf16Init ==
    /\ \E s \in Escapes :
          /\ input = [input |-> s]
          /\ ghost = Utf16Ghost(s)
    /\ pc = "decode"
    /\ heap = EmptyHeap
    /\ object = NULL /\ other = NULL /\ patches = NULL /\ current_patch = NULL
    /\ status = 0
    /\ global_error = NoError

\* utf16_to_utf8(input, input_end, &output)
Utf16Call ==
    /\ pc = "decode"
    /\ \E u \in {utf16_to_utf8(input.input)} :
          ghost' = [ghost EXCEPT !.n = u.n, !.out = u.out]
    /\ pc' = "done"
    /\ UNCHANGED <<heap, object, other, patches, current_patch, status,
                   global_error, input>>

Utf16Next == Utf16Call

SpecUtf16 == Utf16Init /\ [][Utf16Next]_vars

IsHighSurrogate(code) == code >= 55296 /\ code <= 56319
IsLowSurrogate(code) == code >= 56320 /\ code <= 57343

\* The UTF-8 encoding, in four bytes, of a code point from 0x10000.
Utf8Of4(codepoint) ==
    <<Chr(240 + (codepoint \div 262144)), Chr(128 + ((codepoint \div 4096) % 64)),
      Chr(128 + ((codepoint \div 64) % 64)), Chr(128 + (codepoint % 64))>>

Utf16Done == pc = "done" /\ ghost.mode = "utf16"

\* C16: the \uXXXX decoder consumes 0 bytes for a hex quad equal to 0, for a
\* high surrogate not immediately followed by \u and a low surrogate, and
\* for a low surrogate not preceded by a high one; for a valid pair it emits
\* the four UTF-8 bytes of 0x10000 + ((hi & 0x3FF) << 10) + (lo & 0x3FF) and
\* consumes 12 bytes.
C16_SurrogateDecoding ==
    (Utf16Done /\ Len(ghost.s) >= 6) =>
        LET first == parse_hex4(ghost.s, 3)
            second == parse_hex4(ghost.s, 9)
            paired == /\ Len(ghost.s) >= 12
                      /\ ghost.s[7] = "\\" /\ ghost.s[8] = "u"
                      /\ IsLowSurrogate(second)
        IN /\ first = 0 => ghost.n = 0
           /\ (IsHighSurrogate(first) /\ ~paired) => ghost.n = 0
           /\ IsLowSurrogate(first) => ghost.n = 0
           /\ (IsHighSurrogate(first) /\ paired) =>
                 /\ ghost.n = 12
                 /\ ghost.out = Utf8Of4(65536 + (first % 1024) * 1024 + (second % 1024))

(***************************************************************************)
(* Serializing under a hook table: the hooks are installed (or not), then  *)
(* one of the printing entry points runs on a tree, with an allocator that *)
(* may fail after some allocations.                                        *)
(***************************************************************************)
MaxRoom == 12

HookArguments ==
    {<< >>} \cup
    { <<[malloc_fn |-> m, free_fn |-> f]>> :
          m \in {"NULL", "malloc", "custom_malloc"}, f \in {"NULL", "custom_free"} }

LongString == Str(Repeat("a", default_buffer_size + 4))
PrintDocs ==
    { Nul, Num(12), Str(<<"a", "\n">>), LongString,
      Arr(<<Num(1), Str(<<"b">>)>>),
      Obj(<<Keyed(<<"a">>, Arr(<<Num(1)>>)), Keyed(<<"b">>, Nul)>>),
      Arr(<<Num(1), Value(STB_JSON_INVALID, DZero, NullStr, << >>)>>),
      Arr(<<LongString, Value(STB_JSON_INVALID, DZero, NullStr, << >>)>>) }

PrintCalls ==
    { [fn |-> "stb_json_print"], [fn |-> "stb_json_print_unformatted"] }
    \cup { [fn |-> "stb_json_printbuffered", prebuffer |-> n, fmt |-> f] :
              n \in {-1, 0, 4, default_buffer_size + 8}, f \in BOOLEAN }
    \cup { [fn |-> "stb_json_printpreallocated", length |-> n, format |-> f] :
              n \in 0..MaxRoom, f \in BOOLEAN }

PrintFuels == {-1, 0, 1, 2}

PrintGhost(hooked) ==
    [mode |-> "print", hooked |-> hooked, call |-> [fn |-> "none"], nstr |-> 0,
     r |-> NullStr, ok |-> FALSE, block |-> << >>]

PrintInit ==
    /\ \E doc \in PrintDocs :
          \E b \in {Build(EmptyHeap, doc)} : heap = b.h /\ object = b.r
    /\ \E first \in {"hooks", "print"} : pc = first
    /\ ghost = PrintGhost(FALSE)
    /\ input = << >>
    /\ other = NULL /\ patches = NULL /\ current_patch = NULL /\ status = 0
    /\ global_error = NoError

\* stb_json_inithooks(hooks)
PrintInitHooks ==
    /\ pc = "hooks"
    /\ \E hooks \in HookArguments :
          /\ heap' = stb_json_inithooks(heap, hooks)
          /\ input' = [hooks |-> hooks]
    /\ ghost' = [ghost EXCEPT !.hooked = TRUE]
    /\ pc' = "print"
    /\ UNCHANGED <<object, other, patches, current_patch, status, global_error>>

PrintRun(h, call) ==
    CASE call.fn = "stb_json_print" -> stb_json_print(h, object)
      [] call.fn = "stb_json_print_unformatted" -> stb_json_print_unformatted(h, object)
      [] call.fn = "stb_json_printbuffered" ->
             stb_json_printbuffered(h, object, call.prebuffer, call.fmt)

\* One call of a printing entry point; the allocator grants fuel more
\* allocations.
PrintCall ==
    /\ pc = "print"
    /\ \E call \in PrintCalls, fuel \in PrintFuels :
          /\ input' = [call |-> call.fn]
          /\ IF call.fn = "stb_json_printpreallocated"
             THEN \E v \in {stb_json_printpreallocated(
                                [heap EXCEPT !.fuel = fuel], object, << >>,
                                call.length, call.format)} :
                     /\ heap' = v.h
                     /\ ghost' = [ghost EXCEPT !.call = call, !.nstr = heap.nstr,
                                               !.ok = v.r, !.block = v.buffer]
             ELSE \E v \in {PrintRun([heap EXCEPT !.fuel = fuel], call)} :
                     /\ heap' = v.h
                     /\ ghost' = [ghost EXCEPT !.call = call, !.nstr = heap.nstr,
                                               !.r = v.r, !.ok = v.r # NullStr]
    /\ pc' = "done"
    /\ UNCHANGED <<object, other, patches, current_patch, status, global_error>>

PrintNext == PrintInitHooks \/ PrintCall

SpecPrint == PrintInit /\ [][PrintNext]_vars

PrintDone == pc = "done" /\ ghost.mode = "print"

\* C17: after stb_json_inithooks, reallocate is the platform default exactly
\* when allocate and free both are, and null otherwise; a serialization
\* never calls a null reallocate.
C17_NoCallOfNullReallocate ==
    (ghost.mode = "print" /\ ghost.hooked) =>
        /\ heap.hooks.reallocate = "realloc"
              <=> (heap.hooks.allocate = "malloc" /\ heap.hooks.deallocate = "free")
        /\ heap.hooks.reallocate \in {"realloc", "NULL"}
        /\ ~heap.nullcall

\* C18: on every failing path of stb_json_print, stb_json_print_unformatted
\* and stb_json_printbuffered the output buffer is released exactly once,
\* and null is returned.
C18_FailedPrintReleasesBuffer ==
    (PrintDone /\ ghost.call.fn # "stb_json_printpreallocated" /\ ~ghost.ok
     /\ ~heap.nullcall) =>
        /\ heap.nstr = ghost.nstr
        /\ ~heap.bad

(***************************************************************************)
(* ensure, applied to a printbuffer in the middle of a serialization.      *)
(***************************************************************************)
Lengths ==
    {0, 1, 16, default_buffer_size, INT_MAX \div 2, INT_MAX \div 2 + 1, INT_MAX - 1, INT_MAX}
Offsets ==
    {0, 1, 15, default_buffer_size - 1, INT_MAX \div 2 - 1, INT_MAX \div 2, INT_MAX - 6,
     INT_MAX - 1}
Needs == {0, 1, 5, default_buffer_size + 44, INT_MAX \div 2, INT_MAX}

EnsureGhost == [mode |-> "ensure", r |-> FALSE, called |-> FALSE]

EnsureInit ==
    /\ \E length \in Lengths, offset \in Offsets, noalloc \in BOOLEAN,
          fuel \in {-1, 0} :
          /\ offset < length \/ offset = 0
          /\ heap = [EmptyHeap EXCEPT !.nstr = 1, !.fuel = fuel]
          /\ input = [p |-> [printbuffer(heap, << >>, length, noalloc, FALSE)
                                EXCEPT !.offset = offset],
                      needed |-> 0]
    /\ pc = "ensure"
    /\ ghost = EnsureGhost
    /\ object = NULL /\ other = NULL /\ patches = NULL /\ current_patch = NULL
    /\ status = 0
    /\ global_error = NoError

\* ensure(p, needed)
EnsureCall ==
    /\ pc = "ensure"
    /\ \E needed \in Needs :
          \E e \in {ensure(input.p, needed)} :
             /\ input' = [p |-> e.p, needed |-> needed]
             /\ heap' = e.p.h
             /\ ghost' = [ghost EXCEPT !.r = e.r, !.called = TRUE]
    /\ pc' = "done"
    /\ UNCHANGED <<object, other, patches, current_patch, status, global_error>>

EnsureNext == EnsureCall

SpecEnsure == EnsureInit /\ [][EnsureNext]_vars

\* C19: whenever ensure(p, needed) returns an address,
\* p.length >= p.offset + needed + 1, also when offset + needed + 1 exceeds
\* half of, or all of, the platform integer maximum.
C19_EnsureGivesRoom ==
    (ghost.mode = "ensure" /\ ghost.called /\ ghost.r) =>
        input.p.length - input.p.offset - 1 >= input.needed

(***************************************************************************)
(* References and constant keys.  A container is filled with references    *)
(* to the nodes of a tree it does not own and with members under constant  *)
(* keys, then edited, patched and deleted.                                 *)
(***************************************************************************)
MaxEdits == 2

create_reference(h, item) ==
    IF item = NULL THEN [h |-> h, r |-> NULL]
    ELSE Bind([a \in {stb_json_new_item(h)} |->
         IF a.r = NULL THEN a
         ELSE [h |-> [a.h EXCEPT !.n[a.r] =
                         [h.n[item] EXCEPT
                             !.string = NullStr,
                             !.type = IF IsReference(@) THEN @
                                      ELSE @ + STB_JSON_IS_REFERENCE,
                             !.next = NULL, !.prev = NULL]],
               r |-> a.r]])

\* add_item_to_object with constant_key = true: the key is not copied.
stb_json_additemtoobjectcs(h, obj, string, item) ==
    IF obj = NULL \/ string = NullStr \/ item = NULL \/ obj = item
    THEN [h |-> h, r |-> FALSE]
    ELSE LET nd == h.n[item]
         IN add_item_to_array(
                Set(Set(free_if(h, ~IsConstKey(nd.type) /\ nd.string # NullStr),
                        item, "string", string),
                    item, "type",
                    IF IsConstKey(nd.type) THEN nd.type
                    ELSE nd.type + STB_JSON_STRING_IS_CONST),
                obj, item)

stb_json_additemreferencetoarray(h, array, item) ==
    IF array = NULL THEN [h |-> h, r |-> FALSE]
    ELSE Bind([c \in {create_reference(h, item)} |->
         add_item_to_array(c.h, array, c.r)])

stb_json_additemreferencetoobject(h, obj, string, item) ==
    IF obj = NULL \/ string = NullStr THEN [h |-> h, r |-> FALSE]
    ELSE Bind([c \in {create_reference(h, item)} |->
         add_item_to_object(c.h, obj, string, c.r)])

replace_item_in_object(h, obj, string, replacement, case_sensitive) ==
    IF replacement = NULL \/ string = NullStr THEN [h |-> h, r |-> FALSE]
    ELSE LET nd == h.n[replacement]
         IN Bind([k \in {stb_json_strdup(
                             free_if(h, ~IsConstKey(nd.type) /\ nd.string # NullStr),
                             string)} |->
            IF k.r = NullStr
            THEN [h |-> Set(k.h, replacement, "string", NullStr), r |-> FALSE]
            ELSE Bind([keyed \in {Set(Set(k.h, replacement, "string", k.r),
                                      replacement, "type",
                                      IF IsConstKey(nd.type)
                                      THEN nd.type - STB_JSON_STRING_IS_CONST
                                      ELSE nd.type)} |->
                 stb_json_replaceitemviapointer(
                     keyed, obj, get_object_item(keyed, obj, string, case_sensitive),
                     replacement)])])

stb_json_replaceiteminobject(h, obj, string, newitem) ==
    replace_item_in_object(h, obj, string, newitem, FALSE)

RECURSIVE applypatches_from(_, _, _, _)
applypatches_from(h, obj, cp, st) ==
    IF ~applypatches_loop(cp, st) THEN [h |-> h, r |-> st]
    ELSE Bind([a \in {apply_patch(h, obj, cp, FALSE)} |->
         applypatches_from(a.h, obj, a.h.n[cp].next, a.r)])

stb_json_utils_applypatches(h, obj, patch_array) ==
    IF ~stb_json_isarray(h, patch_array) THEN [h |-> h, r |-> 1]
    ELSE applypatches_from(h, obj, h.n[patch_array].child, 0)

Referenced == Arr(<<Str(<<"s">>), Arr(<<Num(1)>>), Obj(<<Keyed(<<"k">>, Num(2))>>)>>)
RootPatches ==
    { Arr(<<Op3(S_replace, << >>, Num(3))>>),
      Arr(<<Op3(S_add, << >>, Str(<<"t">>))>>),
      Arr(<<Op3(S_replace, <<"/", "a">>, Num(3))>>) }
RefMergePatches ==
    { Obj(<<Keyed(<<"a">>, Nul)>>), Obj(<<Keyed(<<"a">>, Num(5))>>),
      Obj(<<Keyed(<<"a">>, Obj(<<Keyed(<<"k">>, Nul)>>))>>), Num(5) }

RefGhost(owned) ==
    [mode |-> "refs", owned |-> owned, edits |-> 0, done |-> {}]

RefInit ==
    /\ \E b \in {Build(EmptyHeap, Referenced)} :
          \E type \in {STB_JSON_ARRAY, STB_JSON_OBJECT} :
             \E c \in {Create(b.h, type)} :
                /\ heap = c.h /\ other = b.r /\ object = c.r
                /\ ghost = RefGhost(b.h.used)
    /\ pc = "refs"
    /\ patches = NULL /\ current_patch = NULL /\ status = 0
    /\ global_error = NoError
    /\ input = << >>

RefFrame(h, name) ==
    /\ heap' = h
    /\ ghost' = [ghost EXCEPT !.edits = @ + 1, !.done = @ \cup {name}]
    /\ UNCHANGED <<pc, other, patches, current_patch, status, global_error, input>>

RefEdit == pc = "refs" /\ object # NULL /\ ghost.edits < MaxEdits

\* stb_json_additemreferencetoarray / stb_json_additemreferencetoobject
RefAddReference ==
    /\ RefEdit
    /\ \E item \in ghost.owned, key \in TreeKeys :
          \E a \in {IF stb_json_isarray(heap, object)
                    THEN stb_json_additemreferencetoarray(heap, object, item)
                    ELSE stb_json_additemreferencetoobject(heap, object, key, item)} :
             RefFrame(a.h, "reference")
    /\ UNCHANGED object

\* stb_json_additemtoobjectcs(object, key, stb_json_createnumber(7))
RefAddConstantKey ==
    /\ RefEdit
    /\ stb_json_isobject(heap, object)
    /\ \E key \in TreeKeys :
          \E c \in {stb_json_createnumber(heap, DInt(7))} :
             \E a \in {stb_json_additemtoobjectcs(c.h, object, key, c.r)} :
                RefFrame(a.h, "constant")
    /\ UNCHANGED object

\* stb_json_replaceiteminobject(object, key, stb_json_createnumber(8)); the
\* caller deletes the new item when the call fails.
RefReplaceInObject ==
    /\ RefEdit
    /\ stb_json_isobject(heap, object)
    /\ \E key \in TreeKeys :
          \E c \in {stb_json_createnumber(heap, DInt(8))} :
             \E a \in {stb_json_replaceiteminobject(c.h, object, key, c.r)} :
                RefFrame(IF a.r THEN a.h ELSE stb_json_delete(a.h, c.r), "replace")
    /\ UNCHANGED object

\* stb_json_utils_applypatches(target, patch) on the container or one of its
\* items, with a patch the caller builds and deletes.
RefPatch ==
    /\ RefEdit
    /\ \E target \in {object} \cup Range(Children(heap, object)), doc \in RootPatches :
          \E b \in {Build(heap, doc)} :
             \E a \in {stb_json_utils_applypatches(b.h, target, b.r)} :
                RefFrame(stb_json_delete(a.h, b.r), "patch")
    /\ UNCHANGED object

\* object = stb_json_utils_mergepatch(object, patch)
RefMerge ==
    /\ RefEdit
    /\ \E doc \in RefMergePatches :
          \E b \in {Build(heap, doc)} :
             \E m \in {stb_json_utils_mergepatch(b.h, object, b.r)} :
                /\ RefFrame(stb_json_delete(m.h, b.r), "merge")
                /\ object' = m.r

\* stb_json_delete(object)
RefDelete ==
    /\ pc = "refs"
    /\ object # NULL
    /\ heap' = stb_json_delete(heap, object)
    /\ object' = NULL
    /\ pc' = "deleted"
    /\ ghost' = [ghost EXCEPT !.done = @ \cup {"delete"}]
    /\ UNCHANGED <<other, patches, current_patch, status, global_error, input>>

RefNext ==
    \/ RefAddReference \/ RefAddConstantKey \/ RefReplaceInObject
    \/ RefPatch \/ RefMerge \/ RefDelete

SpecRefs == RefInit /\ [][RefNext]_vars

\* The strings the live nodes own: payload strings of nodes that are not
\* references, keys that are not constant.
OwnedStrings(h) ==
    Cardinality({id \in h.used : h.n[id].valuestring # NullStr
                                 /\ ~IsReference(h.n[id].type)})
    + Cardinality({id \in h.used : h.n[id].string # NullStr
                                   /\ ~IsConstKey(h.n[id].type)})

\* C20: no operation frees the payload string or the child list of a node
\* bearing the reference flag, or the key of a node bearing the constant-key
\* flag: the referenced tree stays allocated and unchanged, nothing is freed
\* twice, and the strings freed are strings that nodes owned.
C20_FlagsHonoured ==
    ghost.mode = "refs" =>
        /\ ~heap.bad
        /\ ghost.owned \subseteq heap.used
        /\ Abs(heap, other) = Referenced
        /\ heap.nstr = OwnedStrings(heap)

(***************************************************************************)
(* Sorting an object: the sorter called directly and as a side effect of   *)
(* the utilities, and the tree API applied to the object afterwards.       *)
(***************************************************************************)
MaxMembers == 3
MaxSorts == 2
SortKeys == { <<"a">>, <<"A">>, <<"b">> }

\* The members of the object: the i-th carries the number i.
RECURSIVE SortMembers(_, _)
SortMembers(keys, i) ==
    IF i > Len(keys) THEN << >>
    ELSE <<Keyed(keys[i], Num(i))>> \o SortMembers(keys, i + 1)

SortGhost ==
    [mode |-> "sort", before |-> << >>, call |-> "none", cs |-> FALSE,
     item |-> NULL, r |-> FALSE, calls |-> 0, done |-> {}]

SortInit ==
    /\ \E n \in 0..MaxMembers :
          \E keys \in [1..n -> SortKeys] :
             \E b \in {Build(EmptyHeap, Obj(SortMembers(keys, 1)))} :
                heap = b.h /\ object = b.r
    /\ ghost = SortGhost
    /\ pc = "sort"
    /\ other = NULL /\ patches = NULL /\ current_patch = NULL /\ status = 0
    /\ global_error = NoError
    /\ input = << >>

SortFrame(h, call, cs, item, r) ==
    /\ heap' = h
    /\ ghost' = [ghost EXCEPT !.before = Children(heap, object), !.call = call,
                              !.cs = cs, !.item = item, !.r = r,
                              !.calls = @ + 1, !.done = @ \cup {call}]
    /\ UNCHANGED <<object, pc, other, patches, current_patch, status,
                   global_error, input>>

SortStep == pc = "sort" /\ ghost.mode = "sort" /\ ghost.calls < MaxSorts

\* stb_json_utils_sortobject(object) / stb_json_utils_sortobjectcasesensitive(object)
SortCall ==
    /\ SortStep
    /\ \E cs \in BOOLEAN :
          SortFrame(IF cs THEN stb_json_utils_sortobjectcasesensitive(heap, object)
                    ELSE stb_json_utils_sortobject(heap, object),
                    "sort", cs, NULL, TRUE)

\* patch = stb_json_utils_generatepatches(object, to); stb_json_delete(patch);
\* stb_json_delete(to)
SortGeneratePatches ==
    /\ SortStep
    /\ \E b \in {Build(heap, Obj(<<Keyed(<<"a">>, Num(1))>>))} :
          \E g \in {stb_json_utils_generatepatches(b.h, object, b.r)} :
             SortFrame(stb_json_delete(stb_json_delete(g.h, g.r), b.r),
                       "generatepatches", FALSE, NULL, g.r # NULL)

\* patch = stb_json_utils_generatemergepatch(object, to); stb_json_delete(patch);
\* stb_json_delete(to)
SortGenerateMergePatch ==
    /\ SortStep
    /\ \E b \in {Build(heap, Obj(<<Keyed(<<"a">>, Num(1))>>))} :
          \E g \in {stb_json_utils_generatemergepatch(b.h, object, b.r)} :
             SortFrame(stb_json_delete(stb_json_delete(g.h, g.r), b.r),
                       "generatemergepatch", FALSE, NULL, g.r # NULL)

\* stb_json_utils_applypatches(object, [{"op":"test","path":"","value":{"a":1}}])
SortTest ==
    /\ SortStep
    /\ \E b \in {Build(heap, Arr(<<Op3(S_test, << >>, Obj(<<Keyed(<<"a">>, Num(1))>>))>>))} :
          \E a \in {stb_json_utils_applypatches(b.h, object, b.r)} :
             SortFrame(stb_json_delete(a.h, b.r), "test", FALSE, NULL, a.r = 0)

\* stb_json_additemtoobject(object, key, stb_json_createnumber(9)), or
\* stb_json_additemtoarray(object, stb_json_createnumber(9)) on the same
\* container.
SortAdd ==
    /\ SortStep
    /\ \E key \in {<<"a">>, NullStr} :
          \E c \in {stb_json_createnumber(heap, DInt(9))} :
             \E a \in {IF key = NullStr
                       THEN stb_json_additemtoarray(c.h, object, c.r)
                       ELSE stb_json_additemtoobject(c.h, object, key, c.r)} :
                SortFrame(a.h, "add", FALSE, c.r, a.r)

SortNext ==
    \/ SortCall \/ SortGeneratePatches \/ SortGenerateMergePatch
    \/ SortTest \/ SortAdd

SpecSort == SortInit /\ [][SortNext]_vars

KeyOf(id) == heap.n[id].string

\* The sequence s holds the elements of t, each as often as t does.
IsPermutation(s, t) ==
    /\ Len(s) = Len(t)
    /\ \A x \in Range(s) \cup Range(t) :
          Cardinality({i \in 1..Len(s) : s[i] = x})
          = Cardinality({i \in 1..Len(t) : t[i] = x})

\* C21: after stb_json_utils_sortobject or
\* stb_json_utils_sortobjectcasesensitive on children that all carry a key,
\* the children are in non-decreasing
\* key order under the comparison of the call, they are a permutation of the
\* children before the call, and two children whose keys compare equal are
\* in the order they were in before the call.
C21_SortIsStable ==
    (ghost.mode = "sort" /\ ghost.call = "sort"
     /\ \A id \in Range(ghost.before) : KeyOf(id) # NullStr) =>
        LET after == Children(heap, object)
        IN /\ IsPermutation(after, ghost.before)
           /\ \A i, j \in 1..Len(after) :
                 i < j => compare_strings(KeyOf(after[i]), KeyOf(after[j]), ghost.cs) <= 0
           /\ \A i, j \in 1..Len(after) :
                 (i < j /\ compare_strings(KeyOf(after[i]), KeyOf(after[j]), ghost.cs) = 0)
                 => IndexOf(ghost.before, after[i]) < IndexOf(ghost.before, after[j])

\* The list invariant with every link: the head's prev is the tail, the
\* tail's next is null, every other child's prev is its predecessor.
ListLinked(h, parent) ==
    LET ch == Children(h, parent)
    IN /\ ListOk(h, parent)
       /\ \A i \in 2..Len(ch) : h.n[ch[i]].prev = ch[i - 1]

\* C22: after the children of an object were sorted, by
\* stb_json_utils_sortobject or inside patch generation, merge-patch
\* generation or a patch 'test', the child list satisfies the list
\* invariant.
C22_SortKeepsListInvariant ==
    (ghost.mode = "sort"
     /\ ghost.call \in {"sort", "generatepatches", "generatemergepatch", "test"})
    => ListLinked(heap, object)

\* C26: when stb_json_additemtoarray or stb_json_additemtoobject returns
\* true, the item is the last child of the container and the children
\* present before the call are still there in the same order.
C26_AddedItemIsLast ==
    (ghost.mode = "sort" /\ ghost.call = "add" /\ ghost.r) =>
        Children(heap, object) = ghost.before \o <<ghost.item>>

\* C24: stb_json_minify on a NUL-terminated text ends with the read cursor
\* on the terminating NUL of the text: no byte behind that NUL is read, the
\* write cursor is not beyond the read cursor, and a NUL stands at the write
\* cursor.
C24_MinifyStopsAtNul ==
    (ghost.mode = "minify" /\ Len(ghost.outs) = 1) =>
        /\ ~ghost.overrun
        /\ ghost.json = Len(ghost.t)
        /\ ghost.into <= ghost.json
        /\ input.json[ghost.into + 1] = NUL

(***************************************************************************)
(* Diff of an array against a shorter one, and the patch applied.          *)
(***************************************************************************)
MaxLong == 4

\* The array 1, 2, .., m, and its first n elements, the first of them
\* changed or not.
RECURSIVE Counting(_, _)
Counting(from, to) ==
    IF from > to THEN << >> ELSE <<Num(from)>> \o Counting(from + 1, to)
ShrinkTarget(n, changed) ==
    IF n >= 1 /\ changed THEN <<Num(9)>> \o Counting(2, n) ELSE Counting(1, n)

\* The array as the document, or as the member a of the document.
Housed(c, nested) ==
    IF nested THEN Obj(<<Keyed(<<"a">>, Arr(c))>>) ELSE Arr(c)
Elements(v) == IF v.k = STB_JSON_ARRAY THEN v.c ELSE v.c[1].c

ShrinkInit ==
    /\ \E m \in 1..MaxLong, nested \in BOOLEAN, changed \in BOOLEAN :
          \E n \in 0..(m - 1) :
             \E ba \in {Build(EmptyHeap, Housed(Counting(1, m), nested))} :
                \E bb \in {Build(ba.h, Housed(ShrinkTarget(n, changed), nested))} :
                   /\ heap = bb.h /\ object = ba.r /\ other = bb.r
                   /\ ghost = [mode |-> "shrink",
                               b |-> Housed(ShrinkTarget(n, changed), nested),
                               ops |-> << >>, results |-> << >>,
                               before |-> Housed(Counting(1, m), nested),
                               pbefore |-> Nul, lastop |-> Nul, applied |-> FALSE,
                               k |-> m - n]
    /\ patches = NULL
    /\ pc = "generate"
    /\ current_patch = NULL /\ status = 0
    /\ global_error = NoError
    /\ input = << >>

SpecShrink == ShrinkInit /\ [][PatchNext]_vars

IsRemove(op) == Member(Abs(heap, op), K_op) = Str(S_remove)

\* C23: for a source array with k >= 1 elements more than the target array,
\* generatepatches emits exactly k 'remove' operations; applied in the
\* emitted order each of them succeeds, and together they remove the last k
\* elements of the source and leave the others in place.
C23_TailRemovesApply ==
    (ghost.mode = "shrink" /\ pc \in {"loop", "done"}) =>
        /\ Cardinality({i \in 1..Len(ghost.ops) : IsRemove(ghost.ops[i])}) = ghost.k
        /\ \A i \in 1..Len(ghost.results) : ghost.results[i].status = 0
        /\ pc = "done" =>
              /\ Len(ghost.results) = Len(ghost.ops)
              /\ Same(Strip(Abs(heap, object)), ghost.b)

(***************************************************************************)
(* One patch operation applied to a document.                              *)
(***************************************************************************)
OpFrom(op, from, path) ==
    Obj(<<Keyed(K_op, Str(op)), Keyed(K_from, Str(from)), Keyed(K_path, Str(path))>>)

SingleOps ==
    { Op2(S_replace, <<"/", "a">>), Op2(S_replace, <<"/", "0">>),
      Op2(S_replace, << >>), Op2(S_replace, <<"/", "x">>),
      Op2(S_add, <<"/", "a">>), Op2(S_add, <<"/", "-">>),
      Op3(S_replace, <<"/", "a">>, Num(9)), Op3(S_replace, <<"/", "x">>, Num(9)),
      Op3(S_add, <<"/", "x", "/", "y">>, Num(9)), Op3(S_add, <<"a">>, Num(9)),
      Op2(S_remove, <<"/", "a">>), Op2(S_remove, <<"/", "x">>),
      Op2(S_remove, <<"/", "7">>),
      OpFrom(S_move, <<"/", "a">>, <<"/", "x", "/", "y">>),
      OpFrom(S_move, <<"/", "0">>, <<"/", "7", "/", "0">>),
      OpFrom(S_move, <<"/", "a">>, <<"b">>),
      OpFrom(S_move, <<"/", "a">>, <<"/", "c">>),
      OpFrom(S_move, <<"/", "x">>, <<"/", "c">>),
      OpFrom(S_copy, <<"/", "a">>, <<"/", "x", "/", "y">>),
      OpFrom(S_copy, <<"/", "x">>, <<"/", "c">>),
      Op2(S_move, <<"/", "c">>),
      Op3(S_test, <<"/", "a">>, Num(9)),
      Op3(<<"n", "o", "p">>, <<"/", "a">>, Num(9)),
      Obj(<<Keyed(K_op, Str(S_remove))>>) }

SingleGhost(doc, op) ==
    [mode |-> "single", doc |-> doc, op |-> op, applied |-> FALSE]

SingleInit ==
    /\ \E doc \in ApplyDocs, op \in SingleOps :
          \E bd \in {Build(EmptyHeap, doc)} : \E bo \in {Build(bd.h, op)} :
             /\ heap = bo.h /\ object = bd.r /\ current_patch = bo.r
             /\ ghost = SingleGhost(doc, op)
    /\ \E case_sensitive \in BOOLEAN : input = [case_sensitive |-> case_sensitive]
    /\ pc = "single"
    /\ other = NULL /\ patches = NULL /\ status = 0
    /\ global_error = NoError

\* status = apply_patch(object, current_patch, case_sensitive)
SingleApply ==
    /\ pc = "single"
    /\ \E r \in {apply_patch(heap, object, current_patch, input.case_sensitive)} :
          heap' = r.h /\ status' = r.r
    /\ pc' = "done"
    /\ ghost' = [ghost EXCEPT !.applied = TRUE]
    /\ UNCHANGED <<object, other, patches, current_patch, global_error, input>>

SingleNext == SingleApply

SpecSingle == SingleInit /\ [][SingleNext]_vars

\* C25: a patch operation that returns a non-zero status leaves the
\* document structurally unchanged.
C25_FailedOperationKeepsDocument ==
    (ghost.mode = "single" /\ ghost.applied /\ status # 0) =>
        Same(Strip(Abs(heap, object)), ghost.doc)

(***************************************************************************)
(* Deep duplication of a tree, and the deletion of the copy.               *)
(***************************************************************************)
MaxGrants == 4

DupDocs ==
    Docs \cup { Str(<<"s">>),
               Obj(<<Keyed(<<"a">>, Str(<<"s">>)), Keyed(<<"b">>, Arr(<<Str(<<"t">>)>>))>>) }
DupExtras == {"none", "constant", "reference"}

\* The tree to duplicate: a document, as built or with one more member that
\* has a constant key or is a reference to a node of another tree.
DupTree(doc, extra) ==
    LET b == Build(EmptyHeap, doc)
    IN IF extra = "constant" /\ doc.k = STB_JSON_OBJECT
       THEN Bind([c \in {stb_json_createnumber(b.h, DInt(7))} |->
            [h |-> stb_json_additemtoobjectcs(c.h, b.r, <<"c">>, c.r).h,
             r |-> b.r, owner |-> NULL]])
       ELSE IF extra = "reference" /\ doc.k \in {STB_JSON_ARRAY, STB_JSON_OBJECT}
       THEN Bind([o \in {Build(b.h, Referenced)} |->
            [h |-> IF doc.k = STB_JSON_ARRAY
                   THEN stb_json_additemreferencetoarray(o.h, b.r, o.r).h
                   ELSE stb_json_additemreferencetoobject(o.h, b.r, <<"r">>, o.r).h,
             r |-> b.r, owner |-> o.r]])
       ELSE [h |-> b.h, r |-> b.r, owner |-> NULL]

DupInit ==
    /\ \E doc \in DupDocs, extra \in DupExtras, fuel \in {-1} \cup 0..MaxGrants :
          \E t \in {DupTree(doc, extra)} :
             /\ heap = [t.h EXCEPT !.fuel = fuel]
             /\ object = t.r
             /\ ghost = [mode |-> "dup", v |-> Abs(t.h, t.r), used |-> t.h.used,
                         nstr |-> t.h.nstr, owner |-> t.owner, extra |-> extra]
    /\ pc = "dup"
    /\ other = NULL /\ patches = NULL /\ current_patch = NULL /\ status = 0
    /\ global_error = NoError
    /\ input = << >>

\* other = stb_json_duplicate(object, true)
DupCall ==
    /\ pc = "dup"
    /\ \E d \in {stb_json_duplicate(heap, object, TRUE)} :
          heap' = d.h /\ other' = d.r
    /\ pc' = "copied"
    /\ UNCHANGED <<object, patches, current_patch, status, global_error, input,
                   ghost>>

\* stb_json_delete(other)
DupDelete ==
    /\ pc = "copied"
    /\ heap' = stb_json_delete(heap, other)
    /\ pc' = "deleted"
    /\ UNCHANGED <<object, other, patches, current_patch, status, global_error,
                   input, ghost>>

DupNext == DupCall \/ DupDelete

SpecDup == DupInit /\ [][DupNext]_vars

\* C27: the tree stb_json_duplicate(v, true) returns is structurally equal
\* to v, every member with the key of its original; v is left as it was;
\* and deleting the copy frees every node and string allocated for it once
\* and nothing of v.
C27_DuplicateIsOwnedCopy ==
    (ghost.mode = "dup" /\ pc \in {"copied", "deleted"} /\ other # NULL) =>
        /\ ~heap.bad
        /\ ghost.used \subseteq heap.used
        /\ Abs(heap, object) = ghost.v
        /\ pc = "copied" => Abs(heap, other) = ghost.v
        /\ pc = "deleted" => heap.used = ghost.used /\ heap.nstr = ghost.nstr

(***************************************************************************)
(* The pointer from a root to a node, and the node that pointer resolves   *)
(* to.                                                                     *)
(***************************************************************************)
\* stb_json_utils_strdup / stb_json_malloc of a string, stb_json_free of one.
stb_json_utils_strdup(h, string) == stb_json_strdup(h, string)

RECURSIVE stb_json_utils_findpointerfromobjectto(_, _, _)
RECURSIVE findpointer_children(_, _, _, _, _)

\* The loop over the children, lines 1827-1860.
findpointer_children(h, obj, target, current_child, child_index) ==
    IF current_child = NULL THEN [h |-> h, r |-> NullStr]
    ELSE Bind([t \in {stb_json_utils_findpointerfromobjectto(h, current_child, target)} |->
         IF t.r # NullStr
         THEN IF stb_json_isarray(t.h, obj)
              THEN IF ~Grant(t.h) THEN [h |-> free_string(t.h), r |-> NullStr]
                   ELSE [h |-> free_string([Spend(t.h) EXCEPT !.nstr = @ + 1]),
                         r |-> <<"/">> \o Dec(child_index) \o t.r]
              ELSE IF stb_json_isobject(t.h, obj)
              THEN IF ~Grant(t.h) THEN [h |-> free_string(t.h), r |-> NullStr]
                   ELSE [h |-> free_string([Spend(t.h) EXCEPT !.nstr = @ + 1]),
                         r |-> <<"/">>
                               \o encode_string_as_pointer(t.h.n[current_child].string)
                               \o t.r]
              ELSE [h |-> free_string(t.h), r |-> NullStr]
         ELSE findpointer_children(t.h, obj, target, t.h.n[current_child].next,
                                   child_index + 1)])

stb_json_utils_findpointerfromobjectto(h, obj, target) ==
    IF obj = NULL \/ target = NULL THEN [h |-> h, r |-> NullStr]
    ELSE IF obj = target THEN stb_json_utils_strdup(h, << >>)
    ELSE findpointer_children(h, obj, target, h.n[obj].child, 0)

FindDocs ==
    { Num(1),
      Arr(<<Num(1), Arr(<<Num(2), Num(3)>>)>>),
      Obj(<<Keyed(<<"a">>, Num(1)), Keyed(<<"A">>, Num(2)), Keyed(<< >>, Num(3))>>),
      Obj(<<Keyed(<<"a", "/", "b">>, Arr(<<Num(1)>>)), Keyed(<<"~">>, Num(2)),
            Keyed(<<"~", "1">>, Num(3)), Keyed(<<"a">>, Num(4))>>),
      Obj(<<Keyed(<<"m", "~", "/", "n">>, Obj(<<Keyed(<<"/">>, Num(1)),
                                              Keyed(<<"0">>, Num(2))>>))>>),
      Obj(<<Keyed(<<"a">>, Num(1)), Keyed(<<"a">>, Num(2))>>),
      Obj(<<Keyed(<<"a">>, Arr(<<Num(1)>>)), Keyed(<<"b">>, Num(2)),
            Keyed(<<"a">>, Arr(<<Num(1), Num(3)>>))>>),
      Arr(<<Obj(<<Keyed(<<"0">>, Num(1)), Keyed(<<"0">>, Num(2))>>), Num(3)>>) }

FindGhost(doc, inside) ==
    [mode |-> "find", doc |-> doc, inside |-> inside, nstr |-> 0]

\* The tree, a second tree next to it, and a target node of either.
FindInit ==
    /\ \E doc \in FindDocs :
          \E b \in {Build(EmptyHeap, doc)} :
             \E o \in {Build(b.h, Arr(<<Num(1)>>))} :
                /\ heap = o.h /\ object = b.r
                /\ \E target \in o.h.used :
                      input = [target |-> target, pointer |-> NullStr]
                /\ ghost = [FindGhost(doc, b.h.used) EXCEPT !.nstr = o.h.nstr]
    /\ pc = "find"
    /\ other = NULL /\ patches = NULL /\ current_patch = NULL /\ status = 0
    /\ global_error = NoError

\* pointer = stb_json_utils_findpointerfromobjectto(object, target)
FindCall ==
    /\ pc = "find"
    /\ \E f \in {stb_json_utils_findpointerfromobjectto(heap, object, input.target)} :
          heap' = f.h /\ input' = [input EXCEPT !.pointer = f.r]
    /\ pc' = "found"
    /\ UNCHANGED <<object, other, patches, current_patch, status, global_error,
                   ghost>>

\* other = stb_json_utils_getpointercasesensitive(object, pointer);
\* stb_json_free(pointer)
FindResolve ==
    /\ pc = "found"
    /\ other' = stb_json_utils_getpointercasesensitive(heap, object, input.pointer)
    /\ heap' = IF input.pointer = NullStr THEN heap ELSE free_string(heap)
    /\ pc' = "resolved"
    /\ UNCHANGED <<object, patches, current_patch, status, global_error, input,
                   ghost>>

FindNext == FindCall \/ FindResolve

SpecFind == FindInit /\ [][FindNext]_vars

\* The parent of a node of the tree, NULL for the root.
ParentOf(h, root, node) ==
    LET ps == {p \in h.used : node \in Range(Children(h, p))}
    IN IF node = root \/ ps = {} THEN NULL ELSE CHOOSE p \in ps : TRUE

\* A member of an object that an earlier member of the same key hides.
Shadowed(h, root, node) ==
    LET p == ParentOf(h, root, node)
    IN /\ p # NULL
       /\ stb_json_isobject(h, p)
       /\ \E i, j \in 1..Len(Children(h, p)) :
             /\ i < j
             /\ Children(h, p)[j] = node
             /\ h.n[Children(h, p)[i]].string = h.n[node].string

\* The node, or a node above it, is shadowed: no pointer names the node.
RECURSIVE Hidden(_, _, _)
Hidden(h, root, node) ==
    /\ node # root
    /\ node # NULL
    /\ \/ Shadowed(h, root, node)
       \/ Hidden(h, root, ParentOf(h, root, node))

FindDone == ghost.mode = "find" /\ pc = "resolved"

\* C28 as stated: for every node of the tree the pointer returned resolves to
\* that node, also when an object holds a key more than once; for a node
\* outside the tree the function returns null.
C28_FoundPointerResolves ==
    FindDone =>
        IF input.target \in ghost.inside
        THEN input.pointer # NullStr /\ other = input.target
        ELSE input.pointer = NullStr

\* C28 amended: the pointer returned for a node of the tree resolves to that
\* node unless the node, or a node above it, is an object member that an
\* earlier member of the same key hides, and then it resolves to another
\* node or to none; for a node outside the tree the function returns null; the strings
\* the search allocates are freed, but for the one returned.
C28_FoundPointerResolvesUnlessHidden ==
    FindDone =>
        /\ heap.nstr = ghost.nstr
        /\ IF input.target \in ghost.inside
           THEN /\ input.pointer # NullStr
                /\ (other = input.target) = ~Hidden(heap, object, input.target)
           ELSE input.pointer = NullStr

\* The pointer to a node below a member whose key holds '~' and '/' was
\* found and resolves to the node.
C28_Witness ==
    /\ FindDone
    /\ input.pointer = <<"/", "m", "~", "0", "~", "1", "n", "/", "~", "1">>
    /\ other = input.target

(***************************************************************************)
(* Merge-patch generation for documents whose keys differ in case.         *)
(***************************************************************************)
CaseDocs ==
    { Obj(<< >>),
      Obj(<<Keyed(<<"a">>, Num(1))>>),
      Obj(<<Keyed(<<"A">>, Num(1))>>),
      Obj(<<Keyed(<<"a">>, Num(1)), Keyed(<<"A">>, Num(2))>>),
      Obj(<<Keyed(<<"o">>, Obj(<<Keyed(<<"a">>, Num(1))>>))>>),
      Obj(<<Keyed(<<"o">>, Obj(<<Keyed(<<"A">>, Num(1))>>))>>),
      Obj(<<Keyed(<<"o">>, Obj(<<Keyed(<<"a">>, Num(2))>>))>>),
      Obj(<<Keyed(<<"o">>, Obj(<<Keyed(<<"a">>, Num(1)), Keyed(<<"A">>, Num(2))>>))>>),
      Obj(<<Keyed(<<"o">>, Obj(<<Keyed(<<"o">>, Obj(<<Keyed(<<"a">>, Num(1))>>))>>))>>),
      Obj(<<Keyed(<<"o">>, Obj(<<Keyed(<<"o">>, Obj(<<Keyed(<<"A">>, Num(1))>>))>>))>>),
      Obj(<<Keyed(<<"O">>, Obj(<<Keyed(<<"a">>, Num(1))>>))>>) }

CaseGhost(from, to) == [mode |-> "case", from |-> from, to |-> to]

CaseInit ==
    /\ \E from \in CaseDocs, to \in CaseDocs :
          \E bf \in {Build(EmptyHeap, from)} : \E bt \in {Build(bf.h, to)} :
             /\ heap = bt.h /\ object = bf.r /\ other = bt.r
             /\ ghost = CaseGhost(from, to)
    /\ \E case_sensitive \in BOOLEAN : input = [case_sensitive |-> case_sensitive]
    /\ pc = "generate"
    /\ patches = NULL /\ current_patch = NULL /\ status = 0
    /\ global_error = NoError

\* patches = stb_json_utils_generatemergepatch[casesensitive](object, other)
CaseGenerate ==
    /\ pc = "generate"
    /\ \E g \in {IF input.case_sensitive
                 THEN stb_json_utils_generatemergepatchcasesensitive(heap, object, other)
                 ELSE stb_json_utils_generatemergepatch(heap, object, other)} :
          heap' = g.h /\ patches' = g.r
    /\ pc' = "generated"
    /\ UNCHANGED <<object, other, current_patch, status, global_error, input,
                   ghost>>

CaseNext == CaseGenerate

SpecCase == CaseInit /\ [][CaseNext]_vars

\* C29: stb_json_utils_generatemergepatchcasesensitive treats keys that
\* differ only in case as different keys at every nesting level: for two
\* documents that are not equal under case-sensitive key comparison, a
\* difference in the case of a nested key included, it returns a patch with
\* at least one member.
C29_CaseSensitiveAtEveryLevel ==
    (ghost.mode = "case" /\ pc = "generated" /\ input.case_sensitive
     /\ ~Same(ghost.from, ghost.to)) =>
        /\ patches # NULL
        /\ heap.n[patches].child # NULL

(***************************************************************************)
(* Number tokens handed to the parser.                                     *)
(***************************************************************************)
MaxToken == 3
NumberBytes == {"-", "+", "e", "E", ".", "0", "1"}
NumberTokens == SeqsUpTo(NumberBytes, MaxToken) \ {<< >>}

NumberGhost(token, housed) == [mode |-> "number", token |-> token, housed |-> housed]

\* The token as the whole text, or as the only element of an array.
NumberInit ==
    /\ \E token \in NumberTokens, housed \in BOOLEAN :
          /\ input = [value |-> IF housed THEN <<"[">> \o token \o <<"]">> ELSE token]
          /\ ghost = NumberGhost(token, housed)
    /\ heap = EmptyHeap
    /\ pc = "ready"
    /\ object = NULL /\ other = NULL /\ patches = NULL /\ current_patch = NULL
    /\ status = 0
    /\ global_error = NoError

\* object = stb_json_parse(value)
NumberParse ==
    /\ pc = "ready"
    /\ \E p \in {stb_json_parse(heap, global_error, input.value)} :
          /\ heap' = p.h
          /\ object' = p.r
          /\ global_error' = p.error
    /\ pc' = "parsed"
    /\ UNCHANGED <<other, patches, current_patch, status, input, ghost>>

NumberNext == NumberParse

SpecNumber == NumberInit /\ [][NumberNext]_vars

HasDigit(token) == \E i \in 1..Len(token) : IsDigit(token[i])

\* C30: a text whose number token holds no digit ('-' alone, or '-' followed
\* only by e, E, +, - or .) fails to parse: no number node is produced.
C30_NumberNeedsDigit ==
    (ghost.mode = "number" /\ pc = "parsed" /\ ~HasDigit(ghost.token)) =>
        object = NULL

=============================================================================
